---------------------------- MODULE Spec2Model ----------------------------
(***************************************************************************)
(* Model of the KPI dashboard (calculadora-de-kpis).                       *)
(*                                                                         *)
(*   - lib/kpiMeta.js   : KPI_META, formatValue, trafficLight              *)
(*   - KpiCard.jsx      : registry lookup with default, card rendering     *)
(*   - KpiDetailPage.jsx: series, latest, previous                         *)
(*   - the KPI engine (period normalizer, single-period and cross-period   *)
(*     calculators) lives in the backend, which is not among the sources;  *)
(*     it is modelled from the specification (sections 4.2 - 4.4).         *)
(*                                                                         *)
(* Numbers are exact rationals n/d (d > 0, lowest terms) plus the special  *)
(* JavaScript values null, undefined, NaN, +Infinity and -Infinity.        *)
(***************************************************************************)
EXTENDS Integers, Sequences, FiniteSets, TLC

VARIABLES
    \* ---- KpiCard (classifier / registry lookup) ----
    kpiKey,     \* prop kpiKey of the card
    value,      \* prop value of the card
    card,       \* what the card renders: meta, sem, text (NoCard before render)
    registry,   \* the object KPI_META as it is in memory
    \* ---- single-period calculator ----
    record,     \* one raw period record
    kpis,       \* its KPI map (NoKpis before the calculator ran)
    \* ---- normalizer, cross-period calculator, KPI detail page ----
    input,      \* raw records in the order they were written
    ordered,    \* OrderedSeries: normalized records with their KPI maps
    pos,        \* number of periods the cross-period pass has visited
    carry,      \* state carried forward by the cross-period pass
    rows,       \* KpiDetailPage state `rows`
    detailKey,  \* KpiDetailPage route parameter kpiKey
    error,      \* the failure the request ended with ("none" without one)
    pc,         \* stage of the computation request
    \* ---- CompanyDashboard ----
    dashCard,   \* one KPICard of the KPI grid: its props and what it shows
    \* ---- a second computation request ----
    other,      \* the request that is not running: its own input ... pc
    \* ---- CompanyDashboard: the manual data-entry form ----
    formData,   \* state formData: the text of every field
    payload,    \* the body of the last addData request (NoPayload before)
    edits,      \* number of changes typed into the form
    \* ---- SalesPanel ----
    salesFormData,  \* state formData of the sales panel
    sale,       \* the last sale posted: the request body and what became of it
    panel,      \* SalesPanel: loading, dialogOpen, items, summary, the toast
    salesBackend,   \* the sales the backend holds
    \* ---- lib/api.js and Login ----
    localStorage,   \* the browser's localStorage: the item 'token'
    location,       \* window.location.href / the route shown
    sent,           \* the requests sent through the client, in order
    delivered,      \* what the last response handed to its caller
    login,          \* Login: loading and how far handleSubmit has come
    \* ---- Register ----
    regForm,        \* Register: email, password, confirmPassword
    reg,            \* Register: loading, the request body, the toast shown
    \* ---- Dashboard: the companies list ----
    backend,        \* the companies the backend holds
    loads,          \* the calls of getCompanies(), in the order they were made
    companies,      \* state companies: the list on screen
    page,           \* state loading and creating, the deletions under way
    \* ---- trafficLight on two values ----
    pair,           \* a registry key and two values
    lights          \* the traffic lights of the two values

cardVars   == <<kpiKey, value, card, registry>>
calcVars   == <<record, kpis>>
seriesVars == <<input, ordered, pos, carry, rows, detailKey, error, pc>>
dashVars   == <<dashCard>>
pairVars   == <<other>>
formVars   == <<formData, payload, edits>>
salesVars  == <<salesFormData, sale, panel, salesBackend>>
authVars   == <<localStorage, location, sent, delivered, login>>
regVars    == <<regForm, reg>>
listVars   == <<backend, loads, companies, page>>
monoVars   == <<pair, lights>>
vars       == <<kpiKey, value, card, registry, record, kpis,
                input, ordered, pos, carry, rows, detailKey, error, pc, dashCard,
                other, formData, payload, edits,
                salesFormData, sale, panel, salesBackend,
                localStorage, location, sent, delivered, login,
                regForm, reg, backend, loads, companies, page, pair, lights>>

-----------------------------------------------------------------------------
(* Numbers *)

Abs(x) == IF x < 0 THEN -x ELSE x

RECURSIVE GCD(_, _)
GCD(a, b) == IF b = 0 THEN a ELSE GCD(b, a % b)

\* the rational n/d in lowest terms with a positive denominator (d # 0)
Rat(n, d) ==
    LET s == IF d < 0 THEN -1 ELSE 1
        g == GCD(Abs(n), Abs(d))
    IN  [k |-> "num", n |-> (s * n) \div g, d |-> (s * d) \div g]

Int2Num(n) == Rat(n, 1)
Zero       == Int2Num(0)
One        == Int2Num(1)

Null      == [k |-> "null",  n |-> 0, d |-> 1]
Undefined == [k |-> "undef", n |-> 0, d |-> 1]
NaN       == [k |-> "nan",   n |-> 0, d |-> 1]
PosInf    == [k |-> "pinf",  n |-> 0, d |-> 1]
NegInf    == [k |-> "ninf",  n |-> 0, d |-> 1]

IsNum(v) == v.k = "num"

\* JavaScript `value == null`: true of null and of undefined only
IsNullish(v) == v.k \in {"null", "undef"}

\* ToNumber as the relational operators apply it: null -> 0, undefined -> NaN
ToNumber(v) == IF v.k = "null" THEN Zero ELSE IF v.k = "undef" THEN NaN ELSE v

\* JavaScript a < b on numbers: false as soon as one side is NaN
JsLt(a, b) ==
    LET x == ToNumber(a)
        y == ToNumber(b)
    IN  IF x.k = "nan" \/ y.k = "nan" THEN FALSE
        ELSE IF x.k = "pinf" THEN FALSE
        ELSE IF y.k = "ninf" THEN FALSE
        ELSE IF x.k = "ninf" THEN TRUE
        ELSE IF y.k = "pinf" THEN TRUE
        ELSE x.n * y.d < y.n * x.d

\* JavaScript a <= b on numbers
JsLe(a, b) ==
    LET x == ToNumber(a)
        y == ToNumber(b)
    IN  IF x.k = "nan" \/ y.k = "nan" THEN FALSE
        ELSE IF x.k = "ninf" \/ y.k = "pinf" THEN TRUE
        ELSE IF x.k = "pinf" \/ y.k = "ninf" THEN FALSE
        ELSE x.n * y.d <= y.n * x.d

-----------------------------------------------------------------------------
(* lib/kpiMeta.js : the Metric Registry *)

\* meta.rule is absent
NoRule == [type |-> "absent", redMax |-> Undefined, greenMax |-> Undefined,
           yellowMax |-> Undefined]

\* a high_good rule with its two thresholds taken for one another
HighGoodSwapped(red, yellow) ==
    [type |-> "high_good", redMax |-> Rat(yellow, 100), greenMax |-> Undefined,
     yellowMax |-> Rat(red, 100)]

\* { type: "high_good", redMax, yellowMax }, thresholds in hundredths
HighGood(red, yellow) ==
    [type |-> "high_good", redMax |-> Rat(red, 100), greenMax |-> Undefined,
     yellowMax |-> Rat(yellow, 100)]

\* { type: "low_good", greenMax, yellowMax }, thresholds in hundredths
LowGood(green, yellow) ==
    [type |-> "low_good", redMax |-> Undefined, greenMax |-> Rat(green, 100),
     yellowMax |-> Rat(yellow, 100)]

Meta(t, u, r) == [title |-> t, unit |-> u, rule |-> r]

KPI_META ==
    [ margen_neto        |-> Meta("Margen Neto", "pct", HighGood(5, 15)),
      margen_bruto       |-> Meta("Margen Bruto", "pct", HighGood(20, 35)),
      margen_operativo   |-> Meta("Margen Operativo", "pct", HighGood(8, 15)),
      liquidez_corriente |-> Meta("Liquidez Corriente", "ratio", HighGood(100, 150)),
      churn_rate         |-> Meta("Churn Rate", "pct", LowGood(5, 10)),
      retencion          |-> Meta("Retencion", "pct", HighGood(80, 90)),
      ltv_cac            |-> Meta("LTV/CAC", "ratio2", HighGood(200, 300)),
      payback_cac_meses  |-> Meta("Payback CAC", "months", LowGood(300, 600)),
      runway_meses       |-> Meta("Runway", "months", HighGood(300, 600)),
      arpu               |-> Meta("ARPU", "money", NoRule),
      arpu_anualizado    |-> Meta("ARPU anualizado", "money", NoRule),
      ltv                |-> Meta("LTV", "money", NoRule),
      cac                |-> Meta("CAC", "money", NoRule),
      burn_rate          |-> Meta("Burn Rate", "money", NoRule),
      flujo_operativo    |-> Meta("Flujo Operativo", "money", NoRule),
      arr_anualizado     |-> Meta("ARR (anualizado)", "money", NoRule),
      margen_contribucion |-> Meta("Margen Contribucion", "money", NoRule),
      punto_equilibrio_ratio |-> Meta("Punto Equilibrio", "pct", NoRule),
      utilizacion_personal |-> Meta("Utilizacion Personal", "pct", NoRule),
      productividad_ingreso_por_hora |->
          Meta("Productividad (S/ por hora)", "money", NoRule),
      ratio_costos_fijos |-> Meta("Ratio Costos Fijos", "pct", NoRule),
      ventas_vs_compras  |-> Meta("Ventas vs Compras", "money", NoRule),
      resultado_igv      |-> Meta("Resultado IGV", "money", NoRule),
      crecimiento_ingresos_pct |-> Meta("Crecimiento Ingresos", "pct", NoRule),
      crecimiento_utilidad_pct |-> Meta("Crecimiento Utilidad", "pct", NoRule),
      variacion_costos_pct |-> Meta("Variacion Costos", "pct", NoRule),
      delta_ingresos     |-> Meta("Delta Ingresos", "money", NoRule),
      delta_utilidad     |-> Meta("Delta Utilidad", "money", NoRule),
      cashflow_acumulado |-> Meta("Cashflow Acumulado", "money", NoRule),
      promedio_ingresos_3m |-> Meta("Promedio Ingresos 3M", "money", NoRule) ]

\* keys every JavaScript object inherits from Object.prototype: KPI_META[key]
\* is then a function object, truthy, with no title, unit or rule
ProtoKeys == {"constructor"}

\* Lookup with a registered definition as its fallback
LookupFallsToRegistered(key) ==
    IF key \in DOMAIN registry THEN registry[key] ELSE registry["margen_neto"]

\* KpiCard.jsx: const meta = KPI_META[kpiKey] || { title: kpiKey, unit: null }
Lookup(key) ==
    IF key \in DOMAIN registry THEN registry[key]
    ELSE IF key \in ProtoKeys THEN Meta("undefined", "undefined", NoRule)
    ELSE Meta(key, "null", NoRule)

-----------------------------------------------------------------------------
(* lib/kpiMeta.js : formatValue *)

RECURSIVE Pow10(_)
Pow10(f) == IF f = 0 THEN 1 ELSE 10 * Pow10(f - 1)

\* Number.prototype.toFixed(f): the integer m with m / 10^f closest to x, the
\* larger one on a tie, shown with f decimals; NaN and the infinities are shown
\* by name
ToFixed(x, f) ==
    IF ~IsNum(x) THEN x
    ELSE Rat((2 * x.n * Pow10(f) + x.d) \div (2 * x.d), Pow10(f))

\* x * c for an integer c, as JavaScript multiplies
JsTimes(x, c) ==
    IF IsNum(x) THEN Rat(x.n * c, x.d)
    ELSE IF c = 0 THEN NaN
    ELSE IF x.k = "nan" THEN NaN
    ELSE IF (x.k = "pinf") = (c > 0) THEN PosInf ELSE NegInf

\* a rendered string: prefix, the number shown, its number of decimals
\* (-1: the shortest form String(value) gives), locale digit grouping, suffix
Text(p, b, f, g, s) ==
    [prefix |-> p, body |-> b, decimals |-> f, grouped |-> g, suffix |-> s]

NotAvailable == Text("N/A", Null, -1, FALSE, "")

formatValue(v, unit) ==
    IF IsNullish(v) THEN NotAvailable
    ELSE IF unit = "pct" THEN Text("", ToFixed(JsTimes(v, 100), 2), 2, FALSE, "%")
    ELSE IF unit = "ratio" THEN Text("", ToFixed(v, 4), 4, FALSE, "")
    ELSE IF unit = "ratio2" THEN Text("", ToFixed(v, 2), 2, FALSE, "")
    ELSE IF unit = "months" THEN Text("", ToFixed(v, 1), 1, FALSE, " meses")
    ELSE IF unit = "money" THEN Text("S/ ", ToFixed(v, 2), 2, TRUE, "")
    ELSE Text("", v, -1, FALSE, "")

-----------------------------------------------------------------------------
(* lib/kpiMeta.js : trafficLight *)

Light(l, d, c) == [label |-> l, dot |-> d, color |-> c]

SinSemaforo == Light("Sin semaforo", "bg-zinc-500", "zinc")
Critico     == Light("Critico", "bg-red-500", "red")
Atencion    == Light("Atencion", "bg-amber-500", "amber")
Saludable   == Light("Saludable", "bg-emerald-500", "emerald")
LightOK     == Light("OK", "bg-emerald-500", "emerald")

\* JavaScript `!value`: null, undefined, 0 and NaN are falsy
IsFalsy(v) == IsNullish(v) \/ v.k = "nan" \/ (IsNum(v) /\ v.n = 0)

\* trafficLight with the high_good comparisons non-strict
trafficLightHighLe(v, meta) ==
    IF IsNullish(v) \/ meta.rule.type = "absent" THEN SinSemaforo
    ELSE LET r == meta.rule IN
         IF r.type = "high_good" THEN
              IF JsLe(v, r.redMax) THEN Critico
              ELSE IF JsLe(v, r.yellowMax) THEN Atencion
              ELSE Saludable
         ELSE IF r.type = "low_good" THEN
              IF JsLe(v, r.greenMax) THEN Saludable
              ELSE IF JsLe(v, r.yellowMax) THEN Atencion
              ELSE Critico
         ELSE LightOK

\* trafficLight with the low_good comparisons strict
trafficLightLowLt(v, meta) ==
    IF IsNullish(v) \/ meta.rule.type = "absent" THEN SinSemaforo
    ELSE LET r == meta.rule IN
         IF r.type = "high_good" THEN
              IF JsLt(v, r.redMax) THEN Critico
              ELSE IF JsLt(v, r.yellowMax) THEN Atencion
              ELSE Saludable
         ELSE IF r.type = "low_good" THEN
              IF JsLt(v, r.greenMax) THEN Saludable
              ELSE IF JsLt(v, r.yellowMax) THEN Atencion
              ELSE Critico
         ELSE LightOK

\* trafficLight with `!value` as its test for a missing value
trafficLightFalsy(v, meta) ==
    IF IsFalsy(v) \/ meta.rule.type = "absent" THEN SinSemaforo
    ELSE LET r == meta.rule IN
         IF r.type = "high_good" THEN
              IF JsLt(v, r.redMax) THEN Critico
              ELSE IF JsLt(v, r.yellowMax) THEN Atencion
              ELSE Saludable
         ELSE IF r.type = "low_good" THEN
              IF JsLe(v, r.greenMax) THEN Saludable
              ELSE IF JsLe(v, r.yellowMax) THEN Atencion
              ELSE Critico
         ELSE LightOK

\* a classifier whose high_good branch returns its first two bands swapped
trafficLightBandsSwapped(v, meta) ==
    IF IsNullish(v) \/ meta.rule.type = "absent" THEN SinSemaforo
    ELSE LET r == meta.rule IN
         IF r.type = "high_good" THEN
              IF JsLt(v, r.redMax) THEN Atencion
              ELSE IF JsLt(v, r.yellowMax) THEN Critico
              ELSE Saludable
         ELSE IF r.type = "low_good" THEN
              IF JsLe(v, r.greenMax) THEN Saludable
              ELSE IF JsLe(v, r.yellowMax) THEN Atencion
              ELSE Critico
         ELSE LightOK

trafficLight(v, meta) ==
    IF IsNullish(v) \/ meta.rule.type = "absent" THEN SinSemaforo
    ELSE LET r == meta.rule IN
         IF r.type = "high_good" THEN
              IF JsLt(v, r.redMax) THEN Critico
              ELSE IF JsLt(v, r.yellowMax) THEN Atencion
              ELSE Saludable
         ELSE IF r.type = "low_good" THEN
              IF JsLe(v, r.greenMax) THEN Saludable
              ELSE IF JsLe(v, r.yellowMax) THEN Atencion
              ELSE Critico
         ELSE LightOK

-----------------------------------------------------------------------------
(* KpiCard.jsx : one card, rendered from its props *)

\* hundredths around each registry threshold that the card values cover
MaxOffset == 1

RuleThresholds(r) ==
    IF r.type = "high_good" THEN {r.redMax, r.yellowMax}
    ELSE IF r.type = "low_good" THEN {r.greenMax, r.yellowMax}
    ELSE {}

Thresholds == UNION {RuleThresholds(KPI_META[key].rule) : key \in DOMAIN KPI_META}

\* t + o/100
Shift(t, o) == Rat(t.n * 100 + o * t.d, t.d * 100)

\* keys the backend emits under another name than the registry's
UnknownKeys == {"retencion_clientes", "ratio_ltv_cac"}

CardKeys == DOMAIN KPI_META \cup ProtoKeys \cup UnknownKeys

CardValues ==
    {Shift(t, o) : t \in Thresholds, o \in (0 - MaxOffset)..MaxOffset}
        \cup {Zero, Rat(-1, 100)}
        \cup {Null, Undefined, NaN, PosInf, NegInf}

NoCard ==
    [rendered |-> FALSE, meta |-> Meta("", "", NoRule), sem |-> Light("", "", ""),
     text |-> Text("", Null, -1, FALSE, "")]

\* a card that stores the default of an unknown key in the registry
\* (KPI_META[kpiKey] ||= { title: kpiKey, unit: null })
KpiCardStoresDefault ==
    /\ ~card.rendered
    /\ LET meta == Lookup(kpiKey) IN
       /\ card' = [rendered |-> TRUE, meta |-> meta, sem |-> trafficLight(value, meta),
                   text |-> formatValue(value, meta.unit)]
       /\ registry' = [key \in DOMAIN registry \cup {kpiKey} |->
                          IF key = kpiKey THEN meta ELSE registry[key]]
    /\ UNCHANGED <<kpiKey, value>>

\* function KpiCard({ kpiKey, value }): meta, sem and the formatted value
KpiCard ==
    /\ ~card.rendered
    /\ LET meta == Lookup(kpiKey) IN
       card' = [rendered |-> TRUE, meta |-> meta, sem |-> trafficLight(value, meta),
                text |-> formatValue(value, meta.unit)]
    /\ UNCHANGED <<kpiKey, value, registry>>

\* values a card is rendered again with
NextValues == {Null, Zero, Rat(5, 100), Int2Num(3), NaN}

\* the parent renders the card again, with other props
NewProps(key, v) ==
    /\ card.rendered
    /\ kpiKey' = key
    /\ value' = v
    /\ card' = NoCard
    /\ UNCHANGED registry

CardInit ==
    /\ kpiKey \in CardKeys
    /\ value \in CardValues
    /\ card = NoCard
    /\ registry = KPI_META

CardIdle ==
    /\ kpiKey = "margen_neto"
    /\ value = Null
    /\ card = NoCard
    /\ registry = KPI_META

-----------------------------------------------------------------------------
(* KPI engine, section 4.3 : the Single-Period Calculator *)

\* the numeric fields of a raw period record (CompanyDashboard.jsx formData)
Fields ==
    {"ingresos_netos", "costos_directos", "costos_fijos", "gastos_operativos",
     "utilidad_neta", "utilidad_operativa", "activo_corriente", "pasivo_corriente",
     "clientes_activos", "clientes_nuevos", "clientes_perdidos",
     "horas_disponibles", "horas_facturadas", "ventas_netas", "compras_netas",
     "igv_ventas", "igv_compras", "gasto_comercial", "caja", "egresos_totales"}

\* a difference that takes a missing operand for zero
MinusMissingAsZero(a, b) ==
    LET z(x) == IF IsNum(x) THEN x ELSE Zero
    IN  Rat(z(a).n * z(b).d - z(b).n * z(a).d, z(a).d * z(b).d)

\* a - b, undefined when an operand is missing
Minus(a, b) ==
    IF IsNum(a) /\ IsNum(b) THEN Rat(a.n * b.d - b.n * a.d, a.d * b.d)
    ELSE Undefined

\* a + b, undefined when an operand is missing
Plus(a, b) ==
    IF IsNum(a) /\ IsNum(b) THEN Rat(a.n * b.d + b.n * a.d, a.d * b.d)
    ELSE Undefined

\* a * c for a constant c, undefined when a is missing
Times(a, c) == IF IsNum(a) THEN Rat(a.n * c, a.d) ELSE Undefined

\* a division that gives 0 on a zero divisor
SafeDivZeroOnZero(a, b) ==
    IF IsNum(a) /\ IsNum(b) /\ b.n # 0 THEN Rat(a.n * b.d, a.d * b.n)
    ELSE IF IsNum(a) /\ IsNum(b) THEN Zero
    ELSE Undefined

\* a division that takes a zero numerator for a missing one
SafeDivFalsyNumerator(a, b) ==
    IF IsNum(a) /\ a.n # 0 /\ IsNum(b) /\ b.n # 0 THEN Rat(a.n * b.d, a.d * b.n)
    ELSE Undefined

\* a / b, undefined when an operand is missing or the divisor is zero
SafeDiv(a, b) ==
    IF IsNum(a) /\ IsNum(b) /\ b.n # 0 THEN Rat(a.n * b.d, a.d * b.n)
    ELSE Undefined

\* a raw field passed through: a number or undefined
Passthrough(a) == IF IsNum(a) THEN a ELSE Undefined

\* a field of a sparse record: undefined when the key is absent
Field(r, f) == IF f \in DOMAIN r THEN r[f] ELSE Undefined

\* the KPI map of one record, formula by formula (revenue = ingresos_netos)
SinglePeriod(r) ==
    LET ingresos   == Field(r, "ingresos_netos")
        costos     == Field(r, "costos_directos")
        fijos      == Field(r, "costos_fijos")
        activos    == Field(r, "clientes_activos")
        facturadas == Field(r, "horas_facturadas")
        margen_contribucion == Minus(ingresos, costos)
        arpu       == SafeDiv(ingresos, activos)
        churn_rate == SafeDiv(Field(r, "clientes_perdidos"), activos)
        ltv        == SafeDiv(arpu, churn_rate)
        cac        == SafeDiv(Field(r, "gasto_comercial"), Field(r, "clientes_nuevos"))
        burn_rate  == Passthrough(Field(r, "egresos_totales"))
    IN  [ margen_neto         |-> SafeDiv(Field(r, "utilidad_neta"), ingresos),
          margen_bruto        |-> SafeDiv(margen_contribucion, ingresos),
          margen_operativo    |-> SafeDiv(Field(r, "utilidad_operativa"), ingresos),
          margen_contribucion |-> margen_contribucion,
          ratio_costos_fijos  |-> SafeDiv(fijos, ingresos),
          punto_equilibrio_ratio |-> SafeDiv(fijos, margen_contribucion),
          liquidez_corriente  |->
              SafeDiv(Field(r, "activo_corriente"), Field(r, "pasivo_corriente")),
          flujo_operativo     |->
              Minus(Minus(ingresos, costos), Field(r, "gastos_operativos")),
          utilizacion_personal |-> SafeDiv(facturadas, Field(r, "horas_disponibles")),
          productividad_ingreso_por_hora |-> SafeDiv(ingresos, facturadas),
          arpu                |-> arpu,
          arpu_anualizado     |-> Times(arpu, 12),
          churn_rate          |-> churn_rate,
          retencion           |-> Minus(One, churn_rate),
          ltv                 |-> ltv,
          cac                 |-> cac,
          ltv_cac             |-> SafeDiv(ltv, cac),
          payback_cac_meses   |-> SafeDiv(cac, arpu),
          ventas_vs_compras   |->
              Minus(Field(r, "ventas_netas"), Field(r, "compras_netas")),
          resultado_igv       |-> Minus(Field(r, "igv_ventas"), Field(r, "igv_compras")),
          burn_rate           |-> burn_rate,
          runway_meses        |-> SafeDiv(Field(r, "caja"), burn_rate),
          arr_anualizado      |-> Times(ingresos, 12) ]

SingleKpis == DOMAIN SinglePeriod([f \in Fields |-> Undefined])

\* fields of a record that differ from its background
MaxVaried == 2

\* a record with every field filled in
FullRecord ==
    [ ingresos_netos |-> Int2Num(1000), costos_directos |-> Int2Num(400),
      costos_fijos |-> Int2Num(300), gastos_operativos |-> Int2Num(200),
      utilidad_neta |-> Int2Num(100), utilidad_operativa |-> Int2Num(150),
      activo_corriente |-> Int2Num(300), pasivo_corriente |-> Int2Num(200),
      clientes_activos |-> Int2Num(50), clientes_nuevos |-> Int2Num(10),
      clientes_perdidos |-> Int2Num(5), horas_disponibles |-> Int2Num(160),
      horas_facturadas |-> Int2Num(120), ventas_netas |-> Int2Num(1000),
      compras_netas |-> Int2Num(500), igv_ventas |-> Int2Num(180),
      igv_compras |-> Int2Num(90), gasto_comercial |-> Int2Num(200),
      caja |-> Int2Num(900), egresos_totales |-> Int2Num(300) ]

\* a record with no field filled in
EmptyRecord == [f \in Fields |-> Undefined]

\* what a varied field holds: absent, null, zero, or the revenue's amount
VariedValues == {Undefined, Null, Zero, Int2Num(1000)}

\* the sets of at most k fields
RECURSIVE FieldSets(_)
FieldSets(k) ==
    IF k = 0 THEN {{}}
    ELSE LET less == FieldSets(k - 1) IN
         less \cup {S \cup {f} : S \in less, f \in Fields}

\* base with the fields of S replaced by the values of v
Varied(base, S, v) == [f \in Fields |-> IF f \in S THEN v[f] ELSE base[f]]

NoKpis == [done |-> FALSE, map |-> SinglePeriod(EmptyRecord)]

\* one computation request over one record
Calculate ==
    /\ ~kpis.done
    /\ kpis' = [done |-> TRUE, map |-> SinglePeriod(record)]
    /\ UNCHANGED record

CalcInit ==
    /\ \E base \in {FullRecord, EmptyRecord} :
       \E S \in FieldSets(MaxVaried) :
       \E v \in [S -> VariedValues] : record = Varied(base, S, v)
    /\ kpis = NoKpis

CalcIdle ==
    /\ record = EmptyRecord
    /\ kpis = NoKpis

-----------------------------------------------------------------------------
(* KPI engine, section 4.2 : the Period Normalizer *)

Digits == <<"0", "1", "2", "3", "4", "5", "6", "7", "8", "9">>

\* the "YYYY-MM" key of a month, as its sequence of characters
PeriodKey(y, m) ==
    LET digit(n) == Digits[(n % 10) + 1] IN
    << digit(y \div 1000), digit(y \div 100), digit(y \div 10), digit(y), "-",
       digit(m \div 10), digit(m) >>

\* the required pattern of a period key: four digits, "-", two digits
ValidPeriod(p) ==
    /\ Len(p) = 7
    /\ p[5] = "-"
    /\ \A i \in {1, 2, 3, 4, 6, 7} : \E d \in 1..10 : Digits[d] = p[i]

\* character codes: "-" sorts before every digit
CharCode(c) ==
    IF c = "-" THEN 45 ELSE 48 + (CHOOSE i \in 0..9 : Digits[i + 1] = c)

\* lexical order of two strings
RECURSIVE StrLess(_, _)
StrLess(a, b) ==
    IF b = <<>> THEN FALSE
    ELSE IF a = <<>> THEN TRUE
    ELSE IF Head(a) # Head(b) THEN CharCode(Head(a)) < CharCode(Head(b))
    ELSE StrLess(Tail(a), Tail(b))

\* of the records of one period only the last one written stays
RECURSIVE LastWrites(_)
LastWrites(s) ==
    IF s = <<>> THEN <<>>
    ELSE IF \E j \in 2..Len(s) : s[j].period = Head(s).period
         THEN LastWrites(Tail(s))
         ELSE <<Head(s)>> \o LastWrites(Tail(s))

RECURSIVE InsertByPeriod(_, _)
InsertByPeriod(x, s) ==
    IF s = <<>> THEN <<x>>
    ELSE IF StrLess(x.period, Head(s).period) THEN <<x>> \o s
    ELSE <<Head(s)>> \o InsertByPeriod(x, Tail(s))

RECURSIVE SortByPeriod(_)
SortByPeriod(s) ==
    IF s = <<>> THEN <<>> ELSE InsertByPeriod(Head(s), SortByPeriod(Tail(s)))

\* unordered records, possibly with repeated periods -> OrderedSeries
Normalizer(s) == SortByPeriod(LastWrites(s))

-----------------------------------------------------------------------------
(* KPI engine, section 4.4 : the Cross-Period Calculator *)

CrossKpis ==
    {"crecimiento_ingresos_pct", "crecimiento_utilidad_pct", "variacion_costos_pct",
     "cashflow_acumulado", "promedio_ingresos_3m"}

\* the KPI map of a period the cross-period pass has not visited yet
WithCrossBlank(m) ==
    [key \in DOMAIN m \cup CrossKpis |-> IF key \in DOMAIN m THEN m[key] ELSE Undefined]

\* the change relative to the current period instead of the previous one
GrowthOverCurrent(cur, prev) == SafeDiv(Minus(cur, prev), cur)

\* (cur - prev) / prev
Growth(cur, prev) == SafeDiv(Minus(cur, prev), prev)

\* a running total that a missing flow erases
AccumulateErases(total, flow) == Plus(total, flow)

\* the running total plus this period's flow; a missing flow adds nothing
Accumulate(total, flow) == IF IsNum(flow) THEN Plus(total, flow) ELSE total

\* a mean that needs the full window of three values
MeanOfFullWindow(a, b, c) ==
    IF IsNum(a) /\ IsNum(b) /\ IsNum(c)
    THEN SafeDiv(Plus(Plus(a, b), c), Int2Num(3))
    ELSE Undefined

\* mean of the defined values among a, b, c; undefined when there is none
MeanOfDefined(a, b, c) ==
    LET n == (IF IsNum(a) THEN 1 ELSE 0) + (IF IsNum(b) THEN 1 ELSE 0)
                 + (IF IsNum(c) THEN 1 ELSE 0)
        z(x) == IF IsNum(x) THEN x ELSE Zero
    IN  IF n = 0 THEN Undefined
        ELSE SafeDiv(Plus(Plus(z(a), z(b)), z(c)), Int2Num(n))

\* what the pass holds when it starts: no previous period, a total of zero
NoCarry ==
    [ingresos |-> Undefined, ingresos2 |-> Undefined, utilidad |-> Undefined,
     costos |-> Undefined, cashflow |-> Zero]

\* the cross-period KPIs of the next period, from the carried values
CrossOf(row, c) ==
    [ crecimiento_ingresos_pct |-> Growth(row.data.ingresos_netos, c.ingresos),
      crecimiento_utilidad_pct |-> Growth(row.data.utilidad_neta, c.utilidad),
      variacion_costos_pct     |-> Growth(row.data.costos_directos, c.costos),
      cashflow_acumulado       |-> Accumulate(c.cashflow, row.kpis.flujo_operativo),
      promedio_ingresos_3m     |->
          MeanOfDefined(row.data.ingresos_netos, c.ingresos, c.ingresos2) ]

\* the values carried to the period after `row`
CarryAfter(row, c) ==
    [ingresos |-> Passthrough(row.data.ingresos_netos), ingresos2 |-> c.ingresos,
     utilidad |-> Passthrough(row.data.utilidad_neta),
     costos |-> Passthrough(row.data.costos_directos),
     cashflow |-> Accumulate(c.cashflow, row.kpis.flujo_operativo)]

-----------------------------------------------------------------------------
(* One computation request: records -> normalizer -> calculators -> page *)

\* raw records written for one company
MaxRecords == 3

PeriodKeys == {PeriodKey(2024, 1), PeriodKey(2024, 2), PeriodKey(2024, 3)}

\* a sparse record: these four fields and no other
Sparse(ingresos, utilidad, costos, gastos) ==
    [ingresos_netos |-> ingresos, utilidad_neta |-> utilidad,
     costos_directos |-> costos, gastos_operativos |-> gastos]

\* records written for any period: three filled in, one with no field at all
SeriesData ==
    { Sparse(Int2Num(1000), Int2Num(100), Int2Num(600), Int2Num(300)),
      Sparse(Int2Num(1200), Int2Num(180), Int2Num(700), Int2Num(550)),
      Sparse(Int2Num(1500), Zero, Zero, Int2Num(1300)),
      Sparse(Undefined, Undefined, Undefined, Undefined) }

\* a first month without revenue
ZeroRevenue ==
    [period |-> PeriodKey(2024, 1),
     data |-> Sparse(Zero, Int2Num(-20), Undefined, Int2Num(50))]

RawRecords == [period : PeriodKeys, data : SeriesData] \cup {ZeroRevenue}

\* KPI keys the detail page is opened for
DetailKeys == {"margen_neto", "crecimiento_ingresos_pct", "ratio_ltv_cac"}

\* a normalizer that skips the records whose period key it cannot parse
NormalizeSkipsMalformed ==
    /\ pc = "input"
    /\ LET wellFormed(x) == ValidPeriod(x.period)
           sorted == Normalizer(SelectSeq(input, wellFormed))
           blank  == WithCrossBlank(SinglePeriod(EmptyRecord))
       IN  ordered' = [i \in 1..Len(sorted) |->
                          [period |-> sorted[i].period, data |-> sorted[i].data,
                           kpis |-> blank]]
    /\ pc' = "single"
    /\ UNCHANGED <<input, pos, carry, rows, detailKey, error>>

\* section 4.2: a batch with a period key off the pattern fails as a whole
\* with InvalidPeriodFormat; otherwise its records are put in period order
Normalize ==
    /\ pc = "input"
    /\ IF \E i \in 1..Len(input) : ~ValidPeriod(input[i].period)
       THEN /\ error' = "InvalidPeriodFormat"
            /\ pc' = "failed"
            /\ UNCHANGED ordered
       ELSE /\ LET sorted == Normalizer(input)
                   blank  == WithCrossBlank(SinglePeriod(EmptyRecord))
               IN  ordered' = [i \in 1..Len(sorted) |->
                                  [period |-> sorted[i].period, data |-> sorted[i].data,
                                   kpis |-> blank]]
            /\ pc' = "single"
            /\ UNCHANGED error
    /\ UNCHANGED <<input, pos, carry, rows, detailKey>>

\* section 4.3: each record gets its own KPI map
SinglePeriodPass ==
    /\ pc = "single"
    /\ ordered' = [i \in 1..Len(ordered) |->
                      [ordered[i] EXCEPT !.kpis = WithCrossBlank(SinglePeriod(ordered[i].data))]]
    /\ pc' = IF Len(ordered) = 0 THEN "done" ELSE "cross"
    /\ UNCHANGED <<input, pos, carry, rows, detailKey, error>>

\* section 4.4: the pass visits the next period, once, in increasing order
CrossPeriodStep ==
    /\ pc = "cross"
    /\ pos < Len(ordered)
    /\ LET row   == ordered[pos + 1]
           cross == CrossOf(row, carry)
       IN  /\ ordered' = [ordered EXCEPT ![pos + 1].kpis =
                             [key \in DOMAIN row.kpis |->
                                 IF key \in CrossKpis THEN cross[key] ELSE row.kpis[key]]]
           /\ carry' = CarryAfter(row, carry)
    /\ pos' = pos + 1
    /\ pc' = IF pos + 1 = Len(ordered) THEN "done" ELSE "cross"
    /\ UNCHANGED <<input, rows, detailKey, error>>

\* KpiDetailPage: useParams() and loadData(): setRows(res.data || [])
LoadDetail(key) ==
    /\ pc = "done"
    /\ detailKey' = key
    /\ rows' = ordered
    /\ pc' = "shown"
    /\ UNCHANGED <<input, ordered, pos, carry, error>>

\* r?.kpis?.[kpiKey] ?? null
KpiValue(r, key) ==
    LET v == IF key \in DOMAIN r.kpis THEN r.kpis[key] ELSE Undefined
    IN  IF IsNullish(v) THEN Null ELSE v

\* .filter((x) => x.period): a non-empty string is truthy
HasPeriod(x) == x.period # <<>>

\* KpiDetailPage: const series = useMemo(...)
series ==
    SelectSeq([i \in 1..Len(rows) |->
                  [period |-> rows[i].period, value |-> KpiValue(rows[i], detailKey),
                   raw |-> rows[i]]],
              HasPeriod)

\* the first element taken for the latest one
latestIsFirst == IF Len(series) # 0 THEN series[1].value ELSE Null

\* const latest = series.length ? series[series.length - 1].value : null
latest == IF Len(series) # 0 THEN series[Len(series)].value ELSE Null

\* const previous = series.length > 1 ? series[series.length - 2].value : null
previous == IF Len(series) > 1 THEN series[Len(series) - 1].value ELSE Null

\* the comparison made without the test for null: null compares as 0
trendNullAsZero ==
    IF JsLt(previous, latest) THEN "up"
    ELSE IF JsLt(latest, previous) THEN "down"
    ELSE "neutral"

\* const trend = useMemo(...)
trend ==
    IF latest = Null \/ previous = Null THEN "neutral"
    ELSE IF JsLt(previous, latest) THEN "up"
    ELSE IF JsLt(latest, previous) THEN "down"
    ELSE "neutral"

SeriesInit ==
    /\ \E n \in 0..MaxRecords : input \in [1..n -> RawRecords]
    /\ ordered = <<>>
    /\ pos = 0
    /\ carry = NoCarry
    /\ rows = <<>>
    /\ detailKey = "margen_neto"
    /\ error = "none"
    /\ pc = "input"

\* period keys off the pattern: a month without its zero, a two-digit year
MalformedKeys == {<<"2", "0", "2", "4", "-", "1">>, <<"2", "4", "-", "0", "1">>}

\* records of a batch that may hold malformed period keys
BatchRecords ==
    [period : {PeriodKey(2024, 1), PeriodKey(2023, 12)} \cup MalformedKeys,
     data : { Sparse(Int2Num(1000), Int2Num(100), Int2Num(600), Int2Num(300)),
              Sparse(Int2Num(1200), Int2Num(180), Int2Num(700), Int2Num(550)) }]

BatchInit ==
    /\ \E n \in 0..MaxRecords : input \in [1..n -> BatchRecords]
    /\ ordered = <<>>
    /\ pos = 0
    /\ carry = NoCarry
    /\ rows = <<>>
    /\ detailKey = "margen_neto"
    /\ error = "none"
    /\ pc = "input"

\* the state of a request that has not started, over the records s
Fresh(s) ==
    [input |-> s, ordered |-> <<>>, pos |-> 0, carry |-> NoCarry, error |-> "none",
     pc |-> "input"]

\* a switch that leaves the carried values where they are, shared by both
SwitchSharesCarry ==
    /\ other' = [input |-> input, ordered |-> ordered, pos |-> pos, carry |-> carry,
                 error |-> error, pc |-> pc]
    /\ input' = other.input
    /\ ordered' = other.ordered
    /\ pos' = other.pos
    /\ error' = other.error
    /\ pc' = other.pc
    /\ UNCHANGED <<carry, rows, detailKey>>

\* the worker leaves the running request where it is and goes on with the
\* other one: each request keeps its own input, series, position and carry
Switch ==
    /\ other' = [input |-> input, ordered |-> ordered, pos |-> pos, carry |-> carry,
                 error |-> error, pc |-> pc]
    /\ input' = other.input
    /\ ordered' = other.ordered
    /\ pos' = other.pos
    /\ carry' = other.carry
    /\ error' = other.error
    /\ pc' = other.pc
    /\ UNCHANGED <<rows, detailKey>>

\* records of two requests, of the same or of different companies
PairRecords ==
    { [period |-> PeriodKey(2024, 1),
       data |-> Sparse(Int2Num(1000), Int2Num(100), Int2Num(600), Int2Num(300))],
      [period |-> PeriodKey(2024, 2),
       data |-> Sparse(Int2Num(1200), Int2Num(180), Int2Num(700), Int2Num(550))] }

PairInit ==
    /\ \E n \in 0..MaxRecords : input \in [1..n -> PairRecords]
    /\ \E n \in 0..MaxRecords : \E s \in [1..n -> PairRecords] : other = Fresh(s)
    /\ ordered = <<>>
    /\ pos = 0
    /\ carry = NoCarry
    /\ rows = <<>>
    /\ detailKey = "margen_neto"
    /\ error = "none"
    /\ pc = "input"

PairIdle == other = Fresh(<<>>)

SeriesIdle ==
    /\ input = <<>>
    /\ ordered = <<>>
    /\ pos = 0
    /\ carry = NoCarry
    /\ rows = <<>>
    /\ detailKey = "margen_neto"
    /\ error = "none"
    /\ pc = "idle"

-----------------------------------------------------------------------------
(* CompanyDashboard.jsx : the KPI grid of the company dashboard *)

\* Number.prototype.toLocaleString('es-PE', { minimumFractionDigits: lo }):
\* rounded to at most three decimals (at least lo), digits grouped
ToLocale(x, lo) ==
    IF ~IsNum(x) THEN Text("", x, -1, FALSE, "")
    ELSE LET r == ToFixed(x, 3)
             f == IF r.d = 1 THEN 0 ELSE IF 10 % r.d = 0 THEN 1
                  ELSE IF 100 % r.d = 0 THEN 2 ELSE 3
         IN  Text("", r, IF f < lo THEN lo ELSE f, TRUE, "")

\* KPICard: const formatValue = (val) => ...
KPICardFormatValue(val, format) ==
    IF IsNullish(val) THEN NotAvailable
    ELSE IF format = "percent" THEN Text("", ToFixed(JsTimes(val, 100), 2), 2, FALSE, "%")
    ELSE IF format = "currency" THEN [ToLocale(val, 2) EXCEPT !.prefix = "S/ "]
    ELSE IF format = "decimal" THEN Text("", ToFixed(val, 4), 4, FALSE, "")
    ELSE IF format = "months" THEN Text("", ToFixed(val, 1), 1, FALSE, " meses")
    ELSE IF format = "ratio" THEN Text("", ToFixed(val, 2), 2, FALSE, "")
    ELSE ToLocale(val, 0)

\* the description prop: the band it names and the value it puts it above
NoDescription == [given |-> FALSE, band |-> "", above |-> Undefined]
Above1Saludable == [given |-> TRUE, band |-> "Saludable", above |-> Int2Num(1)]
Above3Bueno == [given |-> TRUE, band |-> "Saludable", above |-> Int2Num(3)]

GridCard(t, f, d) == [title |-> t, format |-> f, description |-> d]

\* the KPICard elements of the grid, by the key of latestKpis each one reads
GridCards ==
    [ margen_neto          |-> GridCard("Margen Neto", "percent", NoDescription),
      margen_bruto         |-> GridCard("Margen Bruto", "percent", NoDescription),
      margen_operativo     |-> GridCard("Margen Operativo", "percent", NoDescription),
      margen_contribucion  |-> GridCard("Margen Contribucion", "currency", NoDescription),
      ingresos_anualizados |-> GridCard("ARR (Anualizado)", "currency", NoDescription),
      liquidez_corriente   |-> GridCard("Liquidez Corriente", "decimal", Above1Saludable),
      flujo_operativo      |-> GridCard("Flujo Operativo", "currency", NoDescription),
      cashflow_acumulado   |-> GridCard("Cashflow Acumulado", "currency", NoDescription),
      burn_rate            |-> GridCard("Burn Rate", "currency", NoDescription),
      runway_meses         |-> GridCard("Runway", "months", NoDescription),
      arpu                 |-> GridCard("ARPU", "currency", NoDescription),
      arpu_anualizado      |-> GridCard("ARPU Anualizado", "currency", NoDescription),
      churn_rate           |-> GridCard("Churn Rate", "percent", NoDescription),
      retencion_clientes   |-> GridCard("Retencion", "percent", NoDescription),
      ltv                  |-> GridCard("LTV", "currency", NoDescription),
      cac                  |-> GridCard("CAC", "currency", NoDescription),
      ratio_ltv_cac        |-> GridCard("LTV/CAC", "ratio", Above3Bueno),
      payback_cac_meses    |-> GridCard("Payback CAC", "months", NoDescription),
      punto_equilibrio_ratio |-> GridCard("Punto Equilibrio", "percent", NoDescription),
      utilizacion_personal |-> GridCard("Utilizacion Personal", "percent", NoDescription),
      productividad_ingreso_por_hora |->
          GridCard("Ingreso por Hora", "currency", NoDescription),
      promedio_ingresos_3m |-> GridCard("Promedio 3M", "currency", NoDescription),
      crecimiento_ingresos_pct |-> GridCard("Crec. Ingresos", "percent", NoDescription),
      crecimiento_utilidad_pct |-> GridCard("Crec. Utilidad", "percent", NoDescription),
      variacion_costos_pct |-> GridCard("Var. Costos", "percent", NoDescription) ]

\* values of latestKpis: the card values and an amount with three decimals
GridValues == CardValues \cup {Rat(1234, 1000)}

NoGridCard(key, v) ==
    [shown |-> FALSE, key |-> key, value |-> v, title |-> "",
     text |-> Text("", Null, -1, FALSE, ""), description |-> NoDescription]

\* <KPICard title=... value={latestKpis.key} format=... description=... />
KPICard ==
    /\ ~dashCard.shown
    /\ LET props == GridCards[dashCard.key] IN
       dashCard' = [dashCard EXCEPT !.shown = TRUE, !.title = props.title,
                       !.text = KPICardFormatValue(dashCard.value, props.format),
                       !.description = props.description]

DashInit == \E key \in DOMAIN GridCards : \E v \in GridValues : dashCard = NoGridCard(key, v)

DashIdle == dashCard = NoGridCard("margen_neto", Undefined)

-----------------------------------------------------------------------------
(* CompanyDashboard.jsx : the manual data-entry form *)

IsDigit(c) == \E d \in 1..10 : Digits[d] = c

\* the number of digits s starts with
RECURSIVE LeadingDigits(_)
LeadingDigits(s) ==
    IF s # <<>> /\ IsDigit(Head(s)) THEN 1 + LeadingDigits(Tail(s)) ELSE 0

\* the number a sequence of digits writes (0 for the empty one)
RECURSIVE DigitsValue(_)
DigitsValue(s) ==
    IF s = <<>> THEN 0
    ELSE 10 * DigitsValue(SubSeq(s, 1, Len(s) - 1)) + (CharCode(s[Len(s)]) - 48)

RECURSIVE SkipSpaces(_)
SkipSpaces(s) == IF s # <<>> /\ Head(s) = " " THEN SkipSpaces(Tail(s)) ELSE s

\* parseFloat: leading blanks skipped, then the longest prefix that is a
\* decimal literal (sign, digits, fraction, exponent); NaN when there is none
parseFloat(s) ==
    LET s1   == SkipSpaces(s)
        neg  == s1 # <<>> /\ Head(s1) = "-"
        s2   == IF s1 # <<>> /\ Head(s1) \in {"+", "-"} THEN Tail(s1) ELSE s1
        ni   == LeadingDigits(s2)
        s3   == SubSeq(s2, ni + 1, Len(s2))
        dot  == s3 # <<>> /\ Head(s3) = "."
        nf   == IF dot THEN LeadingDigits(Tail(s3)) ELSE 0
        s4   == IF dot THEN SubSeq(s3, nf + 2, Len(s3)) ELSE s3
        hasE == s4 # <<>> /\ Head(s4) \in {"e", "E"}
        s5   == IF hasE THEN Tail(s4) ELSE <<>>
        eneg == s5 # <<>> /\ Head(s5) = "-"
        s6   == IF s5 # <<>> /\ Head(s5) \in {"+", "-"} THEN Tail(s5) ELSE s5
        ne   == LeadingDigits(s6)
        exp  == IF ne = 0 THEN 0
                ELSE (IF eneg THEN -1 ELSE 1) * DigitsValue(SubSeq(s6, 1, ne))
        mant == DigitsValue(SubSeq(s2, 1, ni) \o
                            (IF dot THEN SubSeq(s3, 2, nf + 1) ELSE <<>>))
        sign == IF neg THEN -1 ELSE 1
    IN  IF Len(s2) >= 8 /\ SubSeq(s2, 1, 8) = <<"I", "n", "f", "i", "n", "i", "t", "y">>
        THEN (IF neg THEN NegInf ELSE PosInf)
        ELSE IF ni + nf = 0 THEN NaN
        ELSE IF exp - nf >= 0 THEN Rat(sign * mant * Pow10(exp - nf), 1)
        ELSE Rat(sign * mant, Pow10(nf - exp))

\* the keys of formData: period and the numeric fields
FormFields == {"period"} \cup Fields

\* the form as useState creates it and as a successful submit leaves it
EmptyForm == [f \in FormFields |-> <<>>]

\* a JavaScript string and a JavaScript number as values of the payload
JsString(t) == [type |-> "string", text |-> t, num |-> Undefined]
JsNumber(x) == [type |-> "number", text |-> <<>>, num |-> x]

\* a payload that carries every field of the form, the empty ones too
PayloadOfEveryField(fd) ==
    [key \in FormFields |->
        IF key = "period" THEN JsString(fd[key]) ELSE JsNumber(parseFloat(fd[key]))]

\* handleSubmitData: if (value !== '') payload[key] = key === 'period' ? value
\*                                                     : parseFloat(value)
Payload(fd) ==
    [key \in {f \in FormFields : fd[f] # <<>>} |->
        IF key = "period" THEN JsString(fd[key]) ELSE JsNumber(parseFloat(fd[key]))]

NoPayload == [sent |-> FALSE, body |-> Payload(EmptyForm)]

\* changes typed into the form in one session
MaxEdits == 3

\* the inputs the user types in
TypedInputs == {"period", "ingresos_netos", "clientes_activos", "caja"}

\* what the text input `period` can hold
PeriodTexts ==
    { <<>>, PeriodKey(2024, 1), <<"2", "0", "2", "4", "-", "1">>, <<" ">> }

\* what an input of type number can hold: nothing or a valid number
NumberTexts ==
    { <<>>, <<"0">>, <<"1", "0", "0", "0">>, <<"1", "2", ".", "5">>, <<"-", "3">>,
      <<"1", "e", "3">> }

\* handleInputChange: setFormData((prev) => ({ ...prev, [name]: value }))
handleInputChange(name, v) ==
    /\ edits < MaxEdits
    /\ formData' = [formData EXCEPT ![name] = v]
    /\ edits' = edits + 1
    /\ UNCHANGED payload

\* handleSubmitData: the form is submitted (period is a required input), the
\* payload goes to addData; the form is emptied when the request succeeds
handleSubmitData ==
    /\ formData.period # <<>>
    /\ payload' = [sent |-> TRUE, body |-> Payload(formData)]
    /\ \E ok \in BOOLEAN : formData' = IF ok THEN EmptyForm ELSE formData
    /\ UNCHANGED edits

FormInit ==
    /\ formData = EmptyForm
    /\ payload = NoPayload
    /\ edits = 0

FormIdle ==
    /\ formData = EmptyForm
    /\ payload = NoPayload
    /\ edits = 0

-----------------------------------------------------------------------------
(* SalesPanel.jsx : the form that registers a sale *)

\* useState({ month: '', cliente: '', monto: '', estado: 'facturada', nota: '' })
EmptySale ==
    [month |-> "", cliente |-> "", monto |-> <<>>, estado |-> "facturada", nota |-> ""]

\* the <SelectItem> values of the estado select
EstadoItems == {"facturada", "confirmada"}

\* what the text inputs month, cliente and nota can hold
SaleTexts ==
    [month |-> {"", "2024-01"}, cliente |-> {"", "ACME"}, nota |-> {"", "pagada"}]

\* what the number input monto can hold
MontoTexts == {<<>>, <<"1", "0", "0", "0", ".", "0", "0">>}

NoSale == [state |-> "none", body |-> [EmptySale EXCEPT !.monto = Undefined]]

\* the number of sales one run registers
MaxSales == 2

\* useState([]) for items and summary, useState(true) for loading,
\* useState(false) for dialogOpen; the effect has called loadData()
PanelIdle ==
    [loading |-> TRUE, dialogOpen |-> FALSE, items |-> <<>>, summary |-> {},
     toast |-> "none", pending |-> 1]

\* GET /sales/:id/summary: the months the backend holds sales for
SummaryOf(list) == {list[i].month : i \in DOMAIN list}

\* onOpenChange={setDialogOpen}: the trigger and the dialog's close button;
\* the panel is on screen once the first load has ended
setDialogOpen(open) ==
    /\ ~panel.loading
    /\ panel' = [panel EXCEPT !.dialogOpen = open]
    /\ UNCHANGED <<salesFormData, sale, salesBackend>>

\* handleInputChange of the inputs month, cliente and nota
salesHandleInputChange(name, v) ==
    /\ panel.dialogOpen
    /\ salesFormData' = [salesFormData EXCEPT ![name] = v]
    /\ UNCHANGED <<sale, panel, salesBackend>>

\* handleInputChange of the input monto
montoHandleInputChange(v) ==
    /\ panel.dialogOpen
    /\ salesFormData' = [salesFormData EXCEPT !.monto = v]
    /\ UNCHANGED <<sale, panel, salesBackend>>

\* onValueChange={(v) => setFormData(prev => ({ ...prev, estado: v }))}
onValueChange(v) ==
    /\ panel.dialogOpen
    /\ salesFormData' = [salesFormData EXCEPT !.estado = v]
    /\ UNCHANGED <<sale, panel, salesBackend>>

\* handleSubmit, up to its await: month, monto and cliente are required
\* inputs; the body is formData with monto: parseFloat(formData.monto)
handleSubmit ==
    /\ panel.dialogOpen
    /\ sale.state # "posting"
    /\ salesFormData.month # ""
    /\ salesFormData.monto # <<>>
    /\ salesFormData.cliente # ""
    /\ Len(salesBackend) < MaxSales
    /\ sale' = [state |-> "posting",
                body |-> [salesFormData EXCEPT !.monto = parseFloat(salesFormData.monto)]]
    /\ UNCHANGED <<salesFormData, panel, salesBackend>>

\* a successful post that empties every field of the form, estado included
postSucceedsEstadoEmptied ==
    /\ sale.state = "posting"
    /\ sale' = [sale EXCEPT !.state = "registered"]
    /\ salesBackend' = Append(salesBackend, sale.body)
    /\ panel' = [panel EXCEPT !.toast = "Venta registrada", !.dialogOpen = FALSE,
                              !.pending = @ + 1]
    /\ salesFormData' = [EmptySale EXCEPT !.estado = ""]

\* a successful post that leaves the dialog and the form as they are
postSucceedsKeepsForm ==
    /\ sale.state = "posting"
    /\ sale' = [sale EXCEPT !.state = "registered"]
    /\ salesBackend' = Append(salesBackend, sale.body)
    /\ panel' = [panel EXCEPT !.toast = "Venta registrada", !.pending = @ + 1]
    /\ UNCHANGED salesFormData

\* handleSubmit after its await: the backend holds the sale; toast.success,
\* setDialogOpen(false), the form is reset, loadData() is called
postSucceeds ==
    /\ sale.state = "posting"
    /\ sale' = [sale EXCEPT !.state = "registered"]
    /\ salesBackend' = Append(salesBackend, sale.body)
    /\ panel' = [panel EXCEPT !.toast = "Venta registrada", !.dialogOpen = FALSE,
                              !.pending = @ + 1]
    /\ salesFormData' = EmptySale

\* handleSubmit, catch (err): toast.error; the form stays as it is
postFails ==
    /\ sale.state = "posting"
    /\ sale' = [sale EXCEPT !.state = "failed"]
    /\ panel' = [panel EXCEPT !.toast = "Error al registrar venta"]
    /\ UNCHANGED <<salesFormData, salesBackend>>

\* loadData from the two responses on: setItems, setSummary, or the catch
\* block; setLoading(false) in either case
loadDataResponse(ok) ==
    /\ panel.pending > 0
    /\ panel' = IF ok
                THEN [panel EXCEPT !.items = salesBackend,
                                   !.summary = SummaryOf(salesBackend),
                                   !.loading = FALSE, !.pending = @ - 1]
                ELSE [panel EXCEPT !.loading = FALSE, !.pending = @ - 1]
    /\ UNCHANGED <<salesFormData, sale, salesBackend>>

SalesInit ==
    /\ salesFormData = EmptySale
    /\ sale = NoSale
    /\ panel = PanelIdle
    /\ salesBackend = <<>>

SalesIdle ==
    /\ salesFormData = EmptySale
    /\ sale = NoSale
    /\ panel = PanelIdle
    /\ salesBackend = <<>>

-----------------------------------------------------------------------------
(* lib/api.js : the axios client and its interceptors; pages/Login.jsx *)

\* the access tokens the backend hands out with a login response
Tokens == {"t1", "t2"}

\* what localStorage.getItem gives for an item that is not stored (null)
NoItem == "(no item)"

\* a config without an Authorization header
NoHeader == <<>>

\* the outcomes of a request: an HTTP status, or 0 for an error without a
\* response (error.response is undefined)
NoResponse == 0
Statuses == {200, 401, 500, NoResponse}

\* the calls of lib/api.js the pages make besides login and getMe
Urls == {"/companies", "/dashboard/1"}

\* the number of requests one run sends
MaxRequests == 3

\* `Bearer ${token}`
Bearer(token) == <<"Bearer", token>>

\* a request interceptor that tests token !== undefined: getItem gives null
\* for a missing item, so that every request carries a header
requestInterceptorNotUndefined(config, store) ==
    [config EXCEPT !.Authorization = Bearer(store.token)]

\* api.interceptors.request.use((config) => ...), run on localStorage as it
\* is when the request is sent: if (token) fails for null and for ''
requestInterceptor(config, store) ==
    IF store.token # NoItem /\ store.token # ""
    THEN [config EXCEPT !.Authorization = Bearer(store.token)]
    ELSE config

\* the config of one call of the client: api.get(url), api.post(url, ...)
Config(url, owner) ==
    [url |-> url, Authorization |-> NoHeader, owner |-> owner, pending |-> TRUE]

\* a response interceptor that rejects without touching the session
onRejectedKeepsSession(status) ==
    [localStorage |-> localStorage, location |-> location]

\* api.interceptors.response.use(..., (error) => ...): what it leaves in
\* localStorage and in window.location.href before it rejects
onRejected(status) ==
    IF status = 401
    THEN [localStorage |-> [localStorage EXCEPT !.token = NoItem], location |-> "/login"]
    ELSE [localStorage |-> localStorage, location |-> location]

NoDelivery == [id |-> 0, status |-> 200, outcome |-> "none"]

\* what the caller of request id gets: the response, or the rejection
Delivery(id, status) ==
    [id |-> id, status |-> status,
     outcome |-> IF status = 200 THEN "resolved" ELSE "rejected"]

\* Login before any submission: useState(false) for loading
LoginIdle ==
    [pc |-> "idle", loading |-> FALSE, token |-> NoItem,
     loginUser |-> FALSE, navigated |-> FALSE, outcome |-> "none"]

\* a page calls the client: getCompanies(), getDashboard(id)
apiCall(url) ==
    /\ Len(sent) < MaxRequests
    /\ sent' = Append(sent, requestInterceptor(Config(url, "page"), localStorage))
    /\ UNCHANGED <<localStorage, location, delivered, login>>

\* the response to a page's request arrives and goes through the response
\* interceptor to the caller
pageResponse(id, status) ==
    /\ id \in DOMAIN sent
    /\ sent[id].pending
    /\ sent[id].owner = "page"
    /\ sent' = [sent EXCEPT ![id].pending = FALSE]
    /\ delivered' = Delivery(id, status)
    /\ IF status = 200
       THEN UNCHANGED <<localStorage, location>>
       ELSE /\ localStorage' = onRejected(status).localStorage
            /\ location' = onRejected(status).location
    /\ UNCHANGED login

\* Login.handleSubmit up to its first await: setLoading(true), login(...);
\* the submit button is disabled while loading
LoginHandleSubmit ==
    /\ ~login.loading
    /\ Len(sent) + 2 <= MaxRequests
    /\ login' = [LoginIdle EXCEPT !.pc = "login", !.loading = TRUE]
    /\ sent' = Append(sent, requestInterceptor(Config("/login", "login"), localStorage))
    /\ UNCHANGED <<localStorage, location, delivered>>

\* Login.handleSubmit, catch and finally: the rejection went through the
\* response interceptor; toast.error, setLoading(false)
LoginCatch(status) ==
    /\ localStorage' = onRejected(status).localStorage
    /\ location' = onRejected(status).location
    /\ login' = [login EXCEPT !.pc = "done", !.outcome = "error", !.loading = FALSE]

\* Login.handleSubmit from the response of login(...) on: the token is
\* stored, then getMe() is sent
LoginResponse(id, status) ==
    /\ id \in DOMAIN sent
    /\ sent[id].pending
    /\ sent[id].url = "/login"
    /\ login.pc = "login"
    /\ delivered' = Delivery(id, status)
    /\ IF status = 200
       THEN \E t \in Tokens :
               /\ localStorage' = [localStorage EXCEPT !.token = t]
               /\ login' = [login EXCEPT !.pc = "me", !.token = t]
               /\ sent' = Append([sent EXCEPT ![id].pending = FALSE],
                                 requestInterceptor(Config("/me", "login"), localStorage'))
               /\ UNCHANGED location
       ELSE /\ LoginCatch(status)
            /\ sent' = [sent EXCEPT ![id].pending = FALSE]

\* Login.handleSubmit from the response of getMe() on: loginUser(token,
\* userRes.data), navigate('/dashboard'), setLoading(false)
MeResponse(id, status) ==
    /\ id \in DOMAIN sent
    /\ sent[id].pending
    /\ sent[id].url = "/me"
    /\ login.pc = "me"
    /\ delivered' = Delivery(id, status)
    /\ sent' = [sent EXCEPT ![id].pending = FALSE]
    /\ IF status = 200
       THEN /\ login' = [login EXCEPT !.pc = "done", !.outcome = "ok", !.loading = FALSE,
                                      !.loginUser = TRUE, !.navigated = TRUE]
            /\ location' = "/dashboard"
            /\ UNCHANGED localStorage
       ELSE LoginCatch(status)

\* a visitor without a session, or one whose browser holds an earlier token
AuthInit ==
    /\ localStorage \in {[token |-> NoItem], [token |-> "t0"]}
    /\ location \in {"/login", "/dashboard"}
    /\ sent = <<>>
    /\ delivered = NoDelivery
    /\ login = LoginIdle

AuthIdle ==
    /\ localStorage = [token |-> NoItem]
    /\ location = "/login"
    /\ sent = <<>>
    /\ delivered = NoDelivery
    /\ login = LoginIdle

-----------------------------------------------------------------------------
(* pages/Register.jsx : the registration form *)

\* what the inputs email, password and confirmPassword can hold; passwords
\* are character sequences of 0, 7, 8 and 8 characters
Short7 == <<"c", "l", "a", "v", "e", "1", "2">>
Long8  == <<"c", "l", "a", "v", "e", "1", "2", "3">>
Other8 == <<"c", "l", "a", "v", "e", "1", "2", "4">>
PasswordTexts == {<<>>, Short7, Long8, Other8}
EmailTexts == {"", "ana@empresa.pe"}

\* the statuses the backend answers a register request with
RegisterStatuses == {200, 400, 500, NoResponse}

NoBody == [email |-> "", password |-> <<>>]

\* useState('') three times, useState(false) for loading
EmptyRegister == [email |-> "", password |-> <<>>, confirmPassword |-> <<>>]
RegisterIdle == [pc |-> "idle", loading |-> FALSE, body |-> NoBody, toast |-> "none"]

\* onChange of the three inputs: setEmail, setPassword, setConfirmPassword
setField(name, v) ==
    /\ location = "/register"
    /\ regForm' = [regForm EXCEPT ![name] = v]
    /\ UNCHANGED <<reg, localStorage, location, sent, delivered, login>>

\* a password long enough from 7 characters on
AcceptedLength7(pw) == Len(pw) >= 7

\* !(password.length < 8)
AcceptedLength(pw) == Len(pw) >= 8

\* Register.handleSubmit up to its await; the three inputs are required and
\* the submit button is disabled while loading
RegisterHandleSubmit ==
    /\ location = "/register"
    /\ ~reg.loading
    /\ regForm.email # ""
    /\ regForm.password # <<>>
    /\ regForm.confirmPassword # <<>>
    /\ Len(sent) < MaxRequests
    /\ IF regForm.password # regForm.confirmPassword
       THEN /\ reg' = [reg EXCEPT !.toast = "Las contrasenas no coinciden"]
            /\ UNCHANGED sent
       ELSE IF ~AcceptedLength(regForm.password)
       THEN /\ reg' = [reg EXCEPT !.toast = "La contrasena debe tener al menos 8 caracteres"]
            /\ UNCHANGED sent
       ELSE /\ reg' = [reg EXCEPT !.pc = "register", !.loading = TRUE,
                                  !.body = [email |-> regForm.email,
                                            password |-> regForm.password]]
            /\ sent' = Append(sent, requestInterceptor(Config("/register", "register"),
                                                       localStorage))
    /\ UNCHANGED <<regForm, localStorage, location, delivered, login>>

\* Register.handleSubmit from the response of register(...) on
RegisterResponse(id, status) ==
    /\ id \in DOMAIN sent
    /\ sent[id].pending
    /\ sent[id].url = "/register"
    /\ reg.pc = "register"
    /\ sent' = [sent EXCEPT ![id].pending = FALSE]
    /\ delivered' = Delivery(id, status)
    /\ IF status = 200
       THEN /\ reg' = [reg EXCEPT !.pc = "done", !.loading = FALSE,
                                  !.toast = "Cuenta creada exitosamente"]
            /\ location' = "/login"
            /\ UNCHANGED localStorage
       ELSE /\ reg' = [reg EXCEPT !.pc = "done", !.loading = FALSE,
                                  !.toast = "Error al registrar"]
            /\ localStorage' = onRejected(status).localStorage
            /\ location' = onRejected(status).location
    /\ UNCHANGED <<regForm, login>>

RegisterInit ==
    /\ regForm = EmptyRegister
    /\ reg = RegisterIdle
    /\ localStorage = [token |-> NoItem]
    /\ location = "/register"
    /\ sent = <<>>
    /\ delivered = NoDelivery
    /\ login = LoginIdle

RegIdle ==
    /\ regForm = EmptyRegister
    /\ reg = RegisterIdle

-----------------------------------------------------------------------------
(* KpiCard.jsx : iconMap; lib/kpiMeta.js : KPI_GROUPS *)

\* const iconMap = { margen_neto: Percent, ... }
iconMap ==
    [ margen_neto |-> "Percent", margen_bruto |-> "Percent",
      margen_operativo |-> "Percent", margen_contribucion |-> "DollarSign",
      ratio_costos_fijos |-> "Percent", liquidez_corriente |-> "Activity",
      flujo_operativo |-> "TrendingUp", burn_rate |-> "TrendingUp",
      runway_meses |-> "Clock", arr_anualizado |-> "DollarSign",
      punto_equilibrio_ratio |-> "Target", arpu |-> "DollarSign",
      arpu_anualizado |-> "DollarSign", churn_rate |-> "Users",
      retencion |-> "Users", ltv |-> "Target", cac |-> "DollarSign",
      ltv_cac |-> "Calculator", payback_cac_meses |-> "Clock",
      utilizacion_personal |-> "Clock",
      productividad_ingreso_por_hora |-> "DollarSign",
      ventas_vs_compras |-> "DollarSign", resultado_igv |-> "DollarSign",
      crecimiento_ingresos_pct |-> "TrendingUp",
      crecimiento_utilidad_pct |-> "TrendingUp",
      variacion_costos_pct |-> "TrendingUp", cashflow_acumulado |-> "Wallet",
      promedio_ingresos_3m |-> "DollarSign" ]

\* export const KPI_GROUPS = { rentabilidad: { title, keys }, ... }
KPI_GROUPS ==
    [ rentabilidad |-> [title |-> "Rentabilidad",
          keys |-> <<"margen_neto", "margen_bruto", "margen_operativo",
                     "margen_contribucion", "arr_anualizado">>],
      liquidez |-> [title |-> "Liquidez y Flujo",
          keys |-> <<"liquidez_corriente", "flujo_operativo", "cashflow_acumulado",
                     "burn_rate", "runway_meses">>],
      clientes |-> [title |-> "Clientes",
          keys |-> <<"arpu", "arpu_anualizado", "churn_rate", "retencion", "ltv">>],
      adquisicion |-> [title |-> "Adquisicion",
          keys |-> <<"cac", "ltv_cac", "payback_cac_meses", "punto_equilibrio_ratio">>],
      productividad |-> [title |-> "Productividad",
          keys |-> <<"utilizacion_personal", "productividad_ingreso_por_hora",
                     "promedio_ingresos_3m">>],
      crecimiento |-> [title |-> "Crecimiento",
          keys |-> <<"crecimiento_ingresos_pct", "crecimiento_utilidad_pct",
                     "variacion_costos_pct">>] ]

\* the KPI keys of the formula tables (sections 4.3 and 4.4)
EngineKeys == SingleKpis \cup CrossKpis

-----------------------------------------------------------------------------
(* CompanyDashboard.jsx : chart series and the table "Datos por Periodo" *)

\* what JavaScript takes for true in `x || 0` and `x ? a : b`
Truthy(v) == (IsNum(v) /\ v.n # 0) \/ v.k \in {"pinf", "ninf"}

\* x || 0
OrZero(v) == IF Truthy(v) THEN v ELSE Zero

\* d.kpis?.key
KpiOf(d, key) == IF key \in DOMAIN d.kpis THEN d.kpis[key] ELSE Undefined

\* d.field of a period of the dashboard response
FieldOf(d, field) == IF field \in DOMAIN d.data THEN d.data[field] ELSE Undefined

\* const periods = dashboardData?.periods || []
periods == rows

\* const chartData = periods.map((d) => ({ ... }))
chartData ==
    [i \in 1..Len(periods) |->
        LET d == periods[i] IN
        [period |-> d.period,
         ingresos |-> OrZero(FieldOf(d, "ingresos_netos")),
         costos |-> OrZero(FieldOf(d, "costos_directos")),
         utilidad |-> OrZero(FieldOf(d, "utilidad_neta")),
         margen |-> IF Truthy(KpiOf(d, "margen_neto"))
                    THEN JsTimes(KpiOf(d, "margen_neto"), 100) ELSE Zero,
         flujo |-> OrZero(KpiOf(d, "flujo_operativo")),
         cashflow_acum |-> OrZero(KpiOf(d, "cashflow_acumulado"))]]

\* the cell of a value that is not shown
Dash == Text("-", Null, -1, FALSE, "")

\* row.x ? `S/ ${row.x.toLocaleString()}` : '-'
MoneyCell(v) == IF Truthy(v) THEN [ToLocale(v, 0) EXCEPT !.prefix = "S/ "] ELSE Dash

\* the cells of one <TableRow> of periods.map((row) => ...)
TableRow(row) ==
    [period |-> row.period,
     ingresos |-> MoneyCell(FieldOf(row, "ingresos_netos")),
     costos |-> MoneyCell(FieldOf(row, "costos_directos")),
     utilidad |-> MoneyCell(FieldOf(row, "utilidad_neta")),
     margen |-> IF Truthy(KpiOf(row, "margen_neto"))
                THEN Text("", ToFixed(JsTimes(KpiOf(row, "margen_neto"), 100), 1), 1, FALSE, "%")
                ELSE Dash,
     crec |-> IF ~IsNullish(KpiOf(row, "crecimiento_ingresos_pct"))
              THEN Text("", ToFixed(JsTimes(KpiOf(row, "crecimiento_ingresos_pct"), 100), 1),
                        1, FALSE, "%")
              ELSE Dash]

TableBody == [i \in 1..Len(periods) |-> TableRow(periods[i])]

-----------------------------------------------------------------------------
(* pages/Dashboard.jsx : the companies list and its reloads *)

\* the ids a company can have
CompanyIds == {1, 2}

\* a load that was sent, one the backend has answered, one that arrived
Load(state, data) == [state |-> state, data |-> data]

\* loadCompanies() up to its await: getCompanies() is sent
loadCompanies(ls) == Append(ls, Load("sent", {}))

\* the backend answers load i with the companies it holds at that moment
serveCompanies(i) ==
    /\ i \in DOMAIN loads
    /\ loads[i].state = "sent"
    /\ loads' = [loads EXCEPT ![i] = Load("served", backend)]
    /\ UNCHANGED <<backend, companies, page>>

\* setCompanies(res.data)
setCompanies(data) == data

\* loadCompanies() from the response of getCompanies() on
getCompaniesResponse(i, ok) ==
    /\ i \in DOMAIN loads
    /\ loads[i].state = "served"
    /\ loads' = [loads EXCEPT ![i].state = IF ok THEN "done" ELSE "failed"]
    /\ companies' = IF ok THEN setCompanies(loads[i].data) ELSE companies
    /\ page' = [page EXCEPT !.loading = FALSE]
    /\ UNCHANGED backend

\* handleCreateCompany up to its await; the submit button is disabled
\* while creating
handleCreateCompany ==
    /\ ~page.creating
    /\ Len(loads) + Cardinality(page.deleting) < MaxRequests
    /\ page' = [page EXCEPT !.creating = TRUE]
    /\ UNCHANGED <<backend, loads, companies>>

\* handleCreateCompany from the response of createCompany(...) on
createCompanyResponse(ok) ==
    /\ page.creating
    /\ page' = [page EXCEPT !.creating = FALSE]
    /\ IF ok /\ CompanyIds \ backend # {}
       THEN /\ backend' = backend \cup {CHOOSE id \in CompanyIds \ backend :
                                           \A o \in CompanyIds \ backend : id <= o}
            /\ loads' = loadCompanies(loads)
       ELSE UNCHANGED <<backend, loads>>
    /\ UNCHANGED companies

\* handleDeleteCompany up to its await; the list is on screen only after
\* the first load
handleDeleteCompany(id) ==
    /\ ~page.loading
    /\ id \in companies
    /\ id \notin page.deleting
    /\ Len(loads) + Cardinality(page.deleting) + (IF page.creating THEN 1 ELSE 0)
           < MaxRequests
    /\ page' = [page EXCEPT !.deleting = @ \cup {id}]
    /\ UNCHANGED <<backend, loads, companies>>

\* handleDeleteCompany from the response of deleteCompany(id) on
deleteCompanyResponse(id, ok) ==
    /\ id \in page.deleting
    /\ page' = [page EXCEPT !.deleting = @ \ {id}]
    /\ IF ok /\ id \in backend
       THEN /\ backend' = backend \ {id}
            /\ loads' = loadCompanies(loads)
       ELSE UNCHANGED <<backend, loads>>
    /\ UNCHANGED companies

\* Dashboard after mounting: useState([]), useState(true), and the effect
\* has called loadCompanies()
ListInit ==
    /\ backend \in {{1}, {1, 2}}
    /\ loads = loadCompanies(<<>>)
    /\ companies = {}
    /\ page = [loading |-> TRUE, creating |-> FALSE, deleting |-> {}]

ListIdle ==
    /\ backend = {1}
    /\ loads = loadCompanies(<<>>)
    /\ companies = {}
    /\ page = [loading |-> TRUE, creating |-> FALSE, deleting |-> {}]

-----------------------------------------------------------------------------
(* lib/kpiMeta.js : trafficLight applied to two values under one rule *)

\* the registry keys that have a rule, and one that has none
RuleKeys == {key \in DOMAIN KPI_META : KPI_META[key].rule.type # "absent"} \cup {"arpu"}

NoLights == [done |-> FALSE, a |-> Light("", "", ""), b |-> Light("", "", "")]

\* trafficLight(a, meta) and trafficLight(b, meta) for the same meta
Classify ==
    /\ ~lights.done
    /\ LET meta == KPI_META[pair.key] IN
       lights' = [done |-> TRUE, a |-> trafficLight(pair.a, meta),
                  b |-> trafficLight(pair.b, meta)]
    /\ UNCHANGED pair

MonoInit ==
    /\ pair \in [key : RuleKeys, a : CardValues, b : CardValues]
    /\ lights = NoLights

MonoIdle ==
    /\ pair = [key |-> "arpu", a |-> Null, b |-> Null]
    /\ lights = NoLights

-----------------------------------------------------------------------------
(* JavaScript numbers are IEEE 754 binary64: the arithmetic of the KPI     *)
(* detail page's statistics.  A finite nonzero double is s * m * 2^e with  *)
(* a mantissa m of 53 bits, kept as a sequence of bits, first bit 1.       *)

MantissaBits == 53

Zeros(k) == [i \in 1..k |-> 0]

\* a bit sequence without its leading zeros
Strip(b) ==
    LET ones == {i \in DOMAIN b : b[i] = 1}
    IN  IF ones = {} THEN <<>>
        ELSE SubSeq(b, CHOOSE i \in ones : \A j \in ones : i <= j, Len(b))

RECURSIVE IntBits(_)
\* the binary digits of a natural number
IntBits(n) == IF n = 0 THEN <<>> ELSE Append(IntBits(n \div 2), n % 2)

\* b + 1
IncBits(b) ==
    LET zs == {i \in DOMAIN b : b[i] = 0}
    IN  IF zs = {} THEN <<1>> \o Zeros(Len(b))
        ELSE LET k == CHOOSE i \in zs : \A j \in zs : j <= i
             IN  [i \in DOMAIN b |-> IF i < k THEN b[i] ELSE IF i = k THEN 1 ELSE 0]

\* b with k leading zeros put before it
PadTo(b, k) == Zeros(k - Len(b)) \o b

RECURSIVE AddFrom(_, _, _, _, _)
\* x + y for x and y of one length: the bits from position i down, with
\* the carry cin into position i, put before the bits acc already computed
AddFrom(x, y, i, cin, acc) ==
    IF i = 0 THEN <<cin>> \o acc
    ELSE AddFrom(x, y, i - 1, (x[i] + y[i] + cin) \div 2,
                 <<(x[i] + y[i] + cin) % 2>> \o acc)

\* x + y
AddBits(x, y) ==
    LET n == IF Len(x) > Len(y) THEN Len(x) ELSE Len(y)
    IN  Strip(AddFrom(PadTo(x, n), PadTo(y, n), n, 0, <<>>))

RECURSIVE SubFrom(_, _, _, _, _)
\* x - y for x >= y of one length, from position i down with a borrow
SubFrom(x, y, i, borrow, acc) ==
    IF i = 0 THEN acc
    ELSE SubFrom(x, y, i - 1, IF x[i] - y[i] - borrow < 0 THEN 1 ELSE 0,
                 <<(x[i] - y[i] - borrow + 2) % 2>> \o acc)

\* x - y for x >= y
SubBits(x, y) == Strip(SubFrom(x, PadTo(y, Len(x)), Len(x), 0, <<>>))

\* x < y for bit sequences without leading zeros
LtBits(x, y) ==
    IF Len(x) # Len(y) THEN Len(x) < Len(y)
    ELSE LET diff == {i \in DOMAIN x : x[i] # y[i]}
         IN  diff # {} /\ LET k == CHOOSE i \in diff : \A j \in diff : i <= j
                          IN  x[k] < y[k]

RECURSIVE DivideFrom(_, _, _, _, _)
\* long division of b by d from bit i on, with the remainder r of the bits
\* before it and the quotient bits acc computed so far
DivideFrom(b, d, i, r, acc) ==
    IF i > Len(b) THEN [bits |-> acc, inexact |-> r # 0]
    ELSE DivideFrom(b, d, i + 1, (2 * r + b[i]) % d, Append(acc, (2 * r + b[i]) \div d))

\* the quotient of b by d, and whether the division leaves a remainder
Quotient(b, d) == DivideFrom(b, d, 1, 0, <<>>)

DZero == [k |-> "zero", s |-> 1, e |-> 0, m |-> <<>>]

\* round to nearest, ties to even: the double nearest to s * b * 2^e, where
\* `inexact` says that the value lies above b * 2^e by less than 2^e
RoundBits(b, e, inexact, s) ==
    IF Len(b) <= MantissaBits
    THEN [k |-> "fin", s |-> s, e |-> e - (MantissaBits - Len(b)),
          m |-> b \o Zeros(MantissaBits - Len(b))]
    ELSE LET m == SubSeq(b, 1, MantissaBits)
             guard == b[MantissaBits + 1]
             sticky == inexact \/ \E i \in MantissaBits + 2..Len(b) : b[i] = 1
             up == guard = 1 /\ (sticky \/ m[MantissaBits] = 1)
             r == IF up THEN IncBits(m) ELSE m
             x == e + (Len(b) - MantissaBits)
         IN  IF Len(r) > MantissaBits
             THEN [k |-> "fin", s |-> s, e |-> x + 1, m |-> SubSeq(r, 1, MantissaBits)]
             ELSE [k |-> "fin", s |-> s, e |-> x, m |-> r]

\* the double nearest to s * b * 2^e / d, for a divisor 0 < d < 2^30: the
\* quotient is computed to two bits more than a mantissa holds
DivRound(b, e, d, s) ==
    LET need == MantissaBits + 2 + Len(IntBits(d)) - Len(b)
        extra == IF need > 0 THEN need ELSE 0
        q == Quotient(b \o Zeros(extra), d)
    IN  RoundBits(Strip(q.bits), e - extra, q.inexact, s)

\* the double a number n/d of the series is received as
ToDouble(v) ==
    IF v.n = 0 THEN DZero
    ELSE DivRound(IntBits(IF v.n < 0 THEN 0 - v.n ELSE v.n), 0, v.d,
                  IF v.n < 0 THEN -1 ELSE 1)

\* |x| < |y| for finite nonzero doubles
MagLt(x, y) == x.e < y.e \/ (x.e = y.e /\ LtBits(x.m, y.m))

\* x < y
DLt(x, y) ==
    IF x.k = "zero" THEN y.k = "fin" /\ y.s = 1
    ELSE IF y.k = "zero" THEN x.s = -1
    ELSE IF x.s # y.s THEN x.s = -1
    ELSE IF x.s = 1 THEN MagLt(x, y) ELSE MagLt(y, x)

DLe(x, y) == ~DLt(y, x)

\* x + y, correctly rounded
DPlus(x, y) ==
    IF x.k = "zero" THEN y
    ELSE IF y.k = "zero" THEN x
    ELSE LET e == IF x.e < y.e THEN x.e ELSE y.e
             a == x.m \o Zeros(x.e - e)
             b == y.m \o Zeros(y.e - e)
         IN  IF x.s = y.s THEN RoundBits(AddBits(a, b), e, FALSE, x.s)
             ELSE IF a = b THEN DZero
             ELSE IF LtBits(a, b) THEN RoundBits(SubBits(b, a), e, FALSE, y.s)
             ELSE RoundBits(SubBits(a, b), e, FALSE, x.s)

\* x / n for a count n, correctly rounded
DOver(x, n) == IF x.k = "zero" THEN DZero ELSE DivRound(x.m, x.e, n, x.s)
-----------------------------------------------------------------------------
(* KpiDetailPage.jsx : the statistics of the series *)

NotNull(v) == v # Null

\* const values = series.map(s => s.value).filter(v => v !== null), as the
\* doubles the page holds
values ==
    LET defined == SelectSeq([i \in 1..Len(series) |-> series[i].value], NotNull)
    IN  [i \in 1..Len(defined) |-> ToDouble(defined[i])]

RECURSIVE ReduceSum(_, _, _)
\* values.reduce((a, b) => a + b, 0) from element i on, with accumulator a
ReduceSum(vs, i, a) ==
    IF i > Len(vs) THEN a ELSE ReduceSum(vs, i + 1, DPlus(a, vs[i]))

\* Math.min(...values)
MathMin(vs) ==
    CHOOSE x \in {vs[i] : i \in DOMAIN vs} : \A i \in DOMAIN vs : DLe(x, vs[i])

\* Math.max(...values)
MathMax(vs) ==
    CHOOSE x \in {vs[i] : i \in DOMAIN vs} : \A i \in DOMAIN vs : DLe(vs[i], x)

\* stats === null
NoStats == [absent |-> TRUE, min |-> DZero, max |-> DZero, avg |-> DZero, count |-> 0]

\* const stats = useMemo(() => ...)
stats ==
    IF Len(values) = 0 THEN NoStats
    ELSE [absent |-> FALSE,
          min |-> MathMin(values),
          max |-> MathMax(values),
          avg |-> DOver(ReduceSum(values, 1, DZero), Len(values)),
          count |-> Len(values)]

-----------------------------------------------------------------------------
(* Specifications *)

\* a KPI card rendered for every key and value
CardNext == KpiCard /\ UNCHANGED <<calcVars, seriesVars, dashVars, pairVars, formVars, salesVars, authVars, regVars, listVars, monoVars>>

InitCard == CardInit /\ CalcIdle /\ SeriesIdle /\ DashIdle /\ PairIdle /\ FormIdle /\ SalesIdle /\ AuthIdle /\ RegIdle /\ ListIdle /\ MonoIdle

SpecCard == InitCard /\ [][CardNext]_vars

\* cards rendered one after another, with any props in any order
RegistryNext ==
    /\ \/ KpiCard
       \/ \E key \in CardKeys : \E v \in NextValues : NewProps(key, v)
    /\ UNCHANGED <<calcVars, seriesVars, dashVars, pairVars, formVars, salesVars, authVars, regVars, listVars, monoVars>>

InitRegistry == CardInit /\ CalcIdle /\ SeriesIdle /\ DashIdle /\ PairIdle /\ FormIdle /\ SalesIdle /\ AuthIdle /\ RegIdle /\ ListIdle /\ MonoIdle

SpecRegistry == InitRegistry /\ [][RegistryNext]_vars

\* the single-period calculator run on every record
CalcNext == Calculate /\ UNCHANGED <<cardVars, seriesVars, dashVars, pairVars, formVars, salesVars, authVars, regVars, listVars, monoVars>>

InitCalc == CardIdle /\ CalcInit /\ SeriesIdle /\ DashIdle /\ PairIdle /\ FormIdle /\ SalesIdle /\ AuthIdle /\ RegIdle /\ ListIdle /\ MonoIdle

SpecCalc == InitCalc /\ [][CalcNext]_vars

SeriesNext ==
    /\ \/ Normalize
       \/ SinglePeriodPass
       \/ CrossPeriodStep
       \/ \E key \in DetailKeys : LoadDetail(key)
    /\ UNCHANGED <<cardVars, calcVars, dashVars, pairVars, formVars, salesVars, authVars, regVars, listVars, monoVars>>

\* a computation request over a series, shown on the KPI detail page
InitSeries == CardIdle /\ CalcIdle /\ SeriesInit /\ DashIdle /\ PairIdle /\ FormIdle /\ SalesIdle /\ AuthIdle /\ RegIdle /\ ListIdle /\ MonoIdle

SpecSeries == InitSeries /\ [][SeriesNext]_vars

\* the KPI grid of the company dashboard, card by card
DashNext == KPICard /\ UNCHANGED <<cardVars, calcVars, seriesVars, pairVars, formVars, salesVars, authVars, regVars, listVars, monoVars>>

InitDashboard == CardIdle /\ CalcIdle /\ SeriesIdle /\ DashInit /\ PairIdle /\ FormIdle /\ SalesIdle /\ AuthIdle /\ RegIdle /\ ListIdle /\ MonoIdle

SpecDashboard == InitDashboard /\ [][DashNext]_vars

\* two computation requests, their steps interleaved in any order
PairNext ==
    /\ \/ Normalize /\ UNCHANGED other
       \/ SinglePeriodPass /\ UNCHANGED other
       \/ CrossPeriodStep /\ UNCHANGED other
       \/ Switch
    /\ UNCHANGED <<cardVars, calcVars, dashVars, formVars, salesVars, authVars, regVars, listVars, monoVars>>

InitPair == CardIdle /\ CalcIdle /\ PairInit /\ DashIdle /\ FormIdle /\ SalesIdle /\ AuthIdle /\ RegIdle /\ ListIdle /\ MonoIdle

SpecPair == InitPair /\ [][PairNext]_vars

\* the manual data-entry form: typing and submitting
FormNext ==
    /\ \/ \E v \in PeriodTexts : handleInputChange("period", v)
       \/ \E name \in TypedInputs \ {"period"} :
              \E v \in NumberTexts : handleInputChange(name, v)
       \/ handleSubmitData
    /\ UNCHANGED <<cardVars, calcVars, seriesVars, dashVars, pairVars, salesVars, authVars, regVars, listVars, monoVars>>

InitForm == CardIdle /\ CalcIdle /\ SeriesIdle /\ DashIdle /\ PairIdle /\ FormInit /\ SalesIdle /\ AuthIdle /\ RegIdle /\ ListIdle /\ MonoIdle

SpecForm == InitForm /\ [][FormNext]_vars

\* the sales panel: edits, submissions and their outcomes in any order
SalesNext ==
    /\ \/ \E name \in DOMAIN SaleTexts :
              \E v \in SaleTexts[name] : salesHandleInputChange(name, v)
       \/ \E v \in MontoTexts : montoHandleInputChange(v)
       \/ \E v \in EstadoItems : onValueChange(v)
       \/ \E open \in BOOLEAN : setDialogOpen(open)
       \/ handleSubmit
       \/ postSucceeds
       \/ postFails
       \/ \E ok \in BOOLEAN : loadDataResponse(ok)
    /\ UNCHANGED <<cardVars, calcVars, seriesVars, dashVars, pairVars, formVars, authVars, regVars, listVars, monoVars>>

InitSales ==
    CardIdle /\ CalcIdle /\ SeriesIdle /\ DashIdle /\ PairIdle /\ FormIdle /\ SalesInit /\ AuthIdle /\ RegIdle /\ ListIdle /\ MonoIdle

SpecSales == InitSales /\ [][SalesNext]_vars

\* a computation request over a batch that may hold malformed period keys
InitBatch == CardIdle /\ CalcIdle /\ BatchInit /\ DashIdle /\ PairIdle /\ FormIdle /\ SalesIdle /\ AuthIdle /\ RegIdle /\ ListIdle /\ MonoIdle

SpecBatch == InitBatch /\ [][SeriesNext]_vars

\* the client in use: pages call it, the visitor logs in, responses arrive
\* in any order with any status
AuthNext ==
    /\ \/ \E url \in Urls : apiCall(url)
       \/ \E id \in 1..MaxRequests : \E status \in Statuses : pageResponse(id, status)
       \/ LoginHandleSubmit
       \/ \E id \in 1..MaxRequests : \E status \in Statuses : LoginResponse(id, status)
       \/ \E id \in 1..MaxRequests : \E status \in Statuses : MeResponse(id, status)
    /\ UNCHANGED <<cardVars, calcVars, seriesVars, dashVars, pairVars, formVars, salesVars, regVars, listVars, monoVars>>

InitAuth ==
    CardIdle /\ CalcIdle /\ SeriesIdle /\ DashIdle /\ PairIdle /\ FormIdle /\ SalesIdle /\ AuthInit /\ RegIdle /\ ListIdle /\ MonoIdle

SpecAuth == InitAuth /\ [][AuthNext]_vars

\* the registration form: typing, submitting, the backend's answer
RegisterNext ==
    /\ \/ \E v \in EmailTexts : setField("email", v)
       \/ \E name \in {"password", "confirmPassword"} :
              \E v \in PasswordTexts : setField(name, v)
       \/ RegisterHandleSubmit
       \/ \E id \in 1..MaxRequests : \E status \in RegisterStatuses :
              RegisterResponse(id, status)
    /\ UNCHANGED <<cardVars, calcVars, seriesVars, dashVars, pairVars, formVars, salesVars, listVars, monoVars>>

InitRegister ==
    CardIdle /\ CalcIdle /\ SeriesIdle /\ DashIdle /\ PairIdle /\ FormIdle /\ SalesIdle /\ RegisterInit /\ ListIdle /\ MonoIdle

SpecRegister == InitRegister /\ [][RegisterNext]_vars

\* the companies page: loads, creations and deletions, answered in any order
ListNext ==
    /\ \/ \E i \in 1..MaxRequests : serveCompanies(i)
       \/ \E i \in 1..MaxRequests : \E ok \in BOOLEAN : getCompaniesResponse(i, ok)
       \/ handleCreateCompany
       \/ \E ok \in BOOLEAN : createCompanyResponse(ok)
       \/ \E id \in CompanyIds : handleDeleteCompany(id)
       \/ \E id \in CompanyIds : \E ok \in BOOLEAN : deleteCompanyResponse(id, ok)
    /\ UNCHANGED <<cardVars, calcVars, seriesVars, dashVars, pairVars, formVars, salesVars,
                   authVars, regVars, monoVars>>

InitList ==
    CardIdle /\ CalcIdle /\ SeriesIdle /\ DashIdle /\ PairIdle /\ FormIdle /\ SalesIdle
        /\ AuthIdle /\ RegIdle /\ ListInit /\ MonoIdle

SpecList == InitList /\ [][ListNext]_vars

\* the classifier applied to two values under the same rule
MonoNext ==
    Classify /\ UNCHANGED <<cardVars, calcVars, seriesVars, dashVars, pairVars, formVars,
                            salesVars, authVars, regVars, listVars>>

InitMono ==
    CardIdle /\ CalcIdle /\ SeriesIdle /\ DashIdle /\ PairIdle /\ FormIdle /\ SalesIdle
        /\ AuthIdle /\ RegIdle /\ ListIdle /\ MonoInit

SpecMono == InitMono /\ [][MonoNext]_vars

-----------------------------------------------------------------------------
(* Claims about the Status Classifier and the registry lookup (SpecCard) *)

\* section 4.5: the severity a traffic light stands for
SeverityOf(sem) ==
    IF sem.label = "Critico" THEN "critical"
    ELSE IF sem.label = "Atencion" THEN "warning"
    ELSE IF sem.label = "Saludable" THEN "healthy"
    ELSE IF sem.label = "Sin semaforo" THEN "none"
    ELSE "other"

\* v < t in the order of the extended reals, for a threshold t
Below(v, t) == v.k = "ninf" \/ (v.k = "num" /\ v.n * t.d < t.n * v.d)

\* v > t in the order of the extended reals, for a threshold t
Above(v, t) == v.k = "pinf" \/ (v.k = "num" /\ v.n * t.d > t.n * v.d)

OnNumberLine(v) == v.k \in {"num", "pinf", "ninf"}

C2_LowGoodBands ==
    (card.rendered /\ card.meta.rule.type = "low_good" /\ OnNumberLine(value)) =>
        LET r == card.meta.rule IN
        /\ ~Above(value, r.greenMax) => SeverityOf(card.sem) = "healthy"
        /\ (Above(value, r.greenMax) /\ ~Above(value, r.yellowMax)) =>
               SeverityOf(card.sem) = "warning"
        /\ Above(value, r.yellowMax) => SeverityOf(card.sem) = "critical"
        /\ value = r.greenMax => SeverityOf(card.sem) = "healthy"
        /\ value = r.yellowMax => SeverityOf(card.sem) = "warning"

C2_Witness ==
    /\ card.rendered
    /\ kpiKey = "churn_rate"
    /\ card.meta.rule = LowGood(5, 10)
    /\ value = Rat(10, 100)
    /\ card.sem = Atencion

\* C3: the classification is 'none' exactly when the value is null or
\* undefined or the definition has no rule; a value of 0 under a rule is put
\* into a band.
C3_NoneIffMissing ==
    card.rendered =>
        /\ (SeverityOf(card.sem) = "none") <=>
               (value.k \in {"null", "undef"} \/ card.meta.rule.type = "absent")
        /\ (value = Zero /\ card.meta.rule.type \in {"high_good", "low_good"}) =>
               SeverityOf(card.sem) \in {"critical", "warning", "healthy"}

C3_Witness ==
    /\ card.rendered
    /\ value = Zero
    /\ kpiKey = "churn_rate"
    /\ card.sem = Saludable

\* C4: classify never fails and returns one of the four severities, and a
\* value that is NaN, +Infinity or -Infinity is classified 'none' whatever the
\* rule.
C4_NonFiniteIsNone ==
    card.rendered =>
        /\ SeverityOf(card.sem) \in {"critical", "warning", "healthy", "none"}
        /\ value.k \in {"nan", "pinf", "ninf"} => SeverityOf(card.sem) = "none"

\* C5: a key that is not in the registry resolves to a definition with no unit
\* and no rule: its value is shown as a plain number and classified 'none'.
C5_UnknownKeyDefault ==
    (card.rendered /\ kpiKey \notin DOMAIN KPI_META) =>
        /\ card.meta.unit \notin {KPI_META[key].unit : key \in DOMAIN KPI_META}
        /\ card.meta.rule.type = "absent"
        /\ SeverityOf(card.sem) = "none"
        /\ value.k \notin {"null", "undef"} =>
               /\ card.text.body = value
               /\ card.text.prefix = "" /\ card.text.suffix = ""
               /\ card.text.decimals = -1 /\ ~card.text.grouped

C5_Witness ==
    /\ card.rendered
    /\ kpiKey = "retencion_clientes"
    /\ value = Rat(81, 100)
    /\ card.text = Text("", Rat(81, 100), -1, FALSE, "")
    /\ card.sem = SinSemaforo

-----------------------------------------------------------------------------
(* Claims about the Single-Period Calculator (SpecCalc) *)

\* the KPIs whose formula divides
DivisionKpis ==
    {"margen_neto", "margen_bruto", "margen_operativo", "ratio_costos_fijos",
     "punto_equilibrio_ratio", "liquidez_corriente", "utilizacion_personal",
     "productividad_ingreso_por_hora", "arpu", "churn_rate", "ltv", "cac",
     "ltv_cac", "payback_cac_meses", "runway_meses"}

\* the divisor of a dividing KPI: a field of the record r or a KPI of its map m
DivisorOf(key, r, m) ==
    CASE key \in {"margen_neto", "margen_bruto", "margen_operativo",
                  "ratio_costos_fijos"}       -> r.ingresos_netos
      [] key = "punto_equilibrio_ratio"       -> m.margen_contribucion
      [] key = "liquidez_corriente"           -> r.pasivo_corriente
      [] key = "utilizacion_personal"         -> r.horas_disponibles
      [] key = "productividad_ingreso_por_hora" -> r.horas_facturadas
      [] key \in {"arpu", "churn_rate"}       -> r.clientes_activos
      [] key = "ltv"                          -> m.churn_rate
      [] key = "cac"                          -> r.clientes_nuevos
      [] key = "ltv_cac"                      -> m.cac
      [] key = "payback_cac_meses"            -> m.arpu
      [] key = "runway_meses"                 -> m.burn_rate

\* everything the formula of a KPI reads, its divisor included
InputsOf(key, r, m) ==
    CASE key = "margen_neto"            -> {r.utilidad_neta, r.ingresos_netos}
      [] key = "margen_bruto"           -> {r.ingresos_netos, r.costos_directos}
      [] key = "margen_operativo"       -> {r.utilidad_operativa, r.ingresos_netos}
      [] key = "margen_contribucion"    -> {r.ingresos_netos, r.costos_directos}
      [] key = "ratio_costos_fijos"     -> {r.costos_fijos, r.ingresos_netos}
      [] key = "punto_equilibrio_ratio" -> {r.costos_fijos, m.margen_contribucion}
      [] key = "liquidez_corriente"     -> {r.activo_corriente, r.pasivo_corriente}
      [] key = "flujo_operativo"        ->
             {r.ingresos_netos, r.costos_directos, r.gastos_operativos}
      [] key = "utilizacion_personal"   -> {r.horas_facturadas, r.horas_disponibles}
      [] key = "productividad_ingreso_por_hora" ->
             {r.ingresos_netos, r.horas_facturadas}
      [] key = "arpu"                   -> {r.ingresos_netos, r.clientes_activos}
      [] key = "arpu_anualizado"        -> {m.arpu}
      [] key = "churn_rate"             -> {r.clientes_perdidos, r.clientes_activos}
      [] key = "retencion"              -> {m.churn_rate}
      [] key = "ltv"                    -> {m.arpu, m.churn_rate}
      [] key = "cac"                    -> {r.gasto_comercial, r.clientes_nuevos}
      [] key = "ltv_cac"                -> {m.ltv, m.cac}
      [] key = "payback_cac_meses"      -> {m.cac, m.arpu}
      [] key = "ventas_vs_compras"      -> {r.ventas_netas, r.compras_netas}
      [] key = "resultado_igv"          -> {r.igv_ventas, r.igv_compras}
      [] key = "burn_rate"              -> {r.egresos_totales}
      [] key = "runway_meses"           -> {r.caja, m.burn_rate}
      [] key = "arr_anualizado"         -> {r.ingresos_netos}

\* zero, null or absent
ZeroOrMissing(v) == v.k \in {"null", "undef"} \/ (v.k = "num" /\ v.n = 0)

\* C6: a KPI whose formula divides is undefined when its divisor is zero, null
\* or absent, and every KPI whose own inputs are present and whose own divisor
\* is non-zero is still computed.
C6_UndefinedStaysLocal ==
    kpis.done =>
        /\ \A key \in DivisionKpis :
               ZeroOrMissing(DivisorOf(key, record, kpis.map)) =>
                   kpis.map[key] = Undefined
        /\ \A key \in SingleKpis :
               ( /\ \A v \in InputsOf(key, record, kpis.map) : v.k = "num"
                 /\ key \in DivisionKpis => ~ZeroOrMissing(DivisorOf(key, record, kpis.map)) )
                   => kpis.map[key].k = "num"

C6_Witness ==
    /\ kpis.done
    /\ record = [FullRecord EXCEPT !["ingresos_netos"] = Zero]
    /\ kpis.map.margen_neto = Undefined
    /\ kpis.map.liquidez_corriente = Rat(3, 2)
    /\ kpis.map.churn_rate = Rat(1, 10)
    /\ kpis.map.retencion = Rat(9, 10)

-----------------------------------------------------------------------------
(* Claims about the Normalizer, the Cross-Period Calculator and the detail
   page (SpecSeries) *)

\* the month a "YYYY-MM" key names, counted from year 0
MonthIndex(p) ==
    LET num(c) == CharCode(c) - 48
    IN  (num(p[1]) * 1000 + num(p[2]) * 100 + num(p[3]) * 10 + num(p[4])) * 12
            + num(p[6]) * 10 + num(p[7])

InputPeriods == {input[i].period : i \in 1..Len(input)}

\* the data written last for period p
LastWritten(p) ==
    input[CHOOSE i \in 1..Len(input) :
              /\ input[i].period = p
              /\ \A j \in (i + 1)..Len(input) : input[j].period # p].data

\* the periods of the input before p, and the latest of them
Earlier(p) == {q \in InputPeriods : MonthIndex(q) < MonthIndex(p)}

Predecessor(p) ==
    CHOOSE q \in Earlier(p) : \A o \in Earlier(p) : MonthIndex(o) <= MonthIndex(q)

\* (cur - prev) / prev for numbers cur and prev # 0, undefined otherwise
RelativeChange(cur, prev) ==
    IF cur.k = "num" /\ prev.k = "num" /\ prev.n # 0
    THEN Rat(cur.n * prev.d - prev.n * cur.d, cur.d * prev.n)
    ELSE Undefined

\* null for a value that is missing
OrNull(v) == IF v.k \in {"null", "undef"} THEN Null ELSE v

\* the value the detail page's KPI has in period p
ShownValue(p) ==
    LET row == ordered[CHOOSE i \in 1..Len(ordered) : ordered[i].period = p]
    IN  IF detailKey \in DOMAIN row.kpis THEN OrNull(row.kpis[detailKey]) ELSE Null

Latest(P) == CHOOSE p \in P : \A q \in P : MonthIndex(q) <= MonthIndex(p)

\* C8: the normalized series is in strictly increasing period order without
\* duplicates, the last written record of a period wins, growth compares a
\* period with its chronological predecessor and latest / previous are the
\* values of the two latest periods; for [2024-01, 2024-03, 2024-02] the
\* growth of 2024-02 is computed against 2024-01.
C8_ChronologicalOrder ==
    /\ pc \in {"single", "cross", "done", "shown"} =>
           /\ \A i \in 1..(Len(ordered) - 1) :
                  MonthIndex(ordered[i].period) < MonthIndex(ordered[i + 1].period)
           /\ {ordered[i].period : i \in 1..Len(ordered)} = InputPeriods
           /\ \A i \in 1..Len(ordered) :
                  ordered[i].data = LastWritten(ordered[i].period)
    /\ pc \in {"done", "shown"} =>
           \A i \in 1..Len(ordered) :
               ordered[i].kpis.crecimiento_ingresos_pct =
                   IF Earlier(ordered[i].period) = {} THEN Undefined
                   ELSE RelativeChange(
                            LastWritten(ordered[i].period).ingresos_netos,
                            LastWritten(Predecessor(ordered[i].period)).ingresos_netos)
    /\ pc = "shown" =>
           /\ latest = IF InputPeriods = {} THEN Null
                       ELSE ShownValue(Latest(InputPeriods))
           /\ previous = IF Cardinality(InputPeriods) < 2 THEN Null
                         ELSE ShownValue(Latest(InputPeriods \ {Latest(InputPeriods)}))

C8_Witness ==
    /\ pc = "shown"
    /\ input = << [period |-> PeriodKey(2024, 1),
                   data |-> Sparse(Int2Num(1000), Int2Num(100), Int2Num(600), Int2Num(300))],
                  [period |-> PeriodKey(2024, 3),
                   data |-> Sparse(Int2Num(1500), Zero, Zero, Int2Num(1300))],
                  [period |-> PeriodKey(2024, 2),
                   data |-> Sparse(Int2Num(1200), Int2Num(180), Int2Num(700), Int2Num(550))] >>
    /\ [i \in 1..3 |-> rows[i].period] =
           <<PeriodKey(2024, 1), PeriodKey(2024, 2), PeriodKey(2024, 3)>>
    /\ detailKey = "crecimiento_ingresos_pct"
    /\ rows[2].kpis.crecimiento_ingresos_pct = Rat(1, 5)
    /\ previous = Rat(1, 5)
    /\ latest = Rat(1, 4)

\* the periods the cross-period pass is done with
Visited == IF pc \in {"done", "shown"} THEN 1..Len(ordered)
           ELSE IF pc = "cross" THEN 1..pos ELSE {}

\* C9: crecimiento_ingresos_pct[i] = (revenue[i] - revenue[i-1]) / revenue[i-1],
\* undefined at i = 0 or when revenue[i-1] is zero or absent; the same for
\* crecimiento_utilidad_pct on net_income and variacion_costos_pct on
\* direct_costs.
C9_GrowthAgainstPrevious ==
    \A i \in Visited :
        LET cur  == ordered[i].data
            prev == IF i = 1 THEN Sparse(Undefined, Undefined, Undefined, Undefined)
                    ELSE ordered[i - 1].data
            k    == ordered[i].kpis
        IN  /\ k.crecimiento_ingresos_pct =
                   RelativeChange(cur.ingresos_netos, prev.ingresos_netos)
            /\ k.crecimiento_utilidad_pct =
                   RelativeChange(cur.utilidad_neta, prev.utilidad_neta)
            /\ k.variacion_costos_pct =
                   RelativeChange(cur.costos_directos, prev.costos_directos)
            /\ (i = 1 \/ ZeroOrMissing(prev.ingresos_netos)) =>
                   k.crecimiento_ingresos_pct = Undefined
            /\ (i = 1 \/ ZeroOrMissing(prev.utilidad_neta)) =>
                   k.crecimiento_utilidad_pct = Undefined
            /\ (i = 1 \/ ZeroOrMissing(prev.costos_directos)) =>
                   k.variacion_costos_pct = Undefined

C9_Witness ==
    /\ pc = "done"
    /\ Len(ordered) = 2
    /\ ordered[1].period = PeriodKey(2024, 1)
    /\ ordered[1].data.ingresos_netos = Int2Num(1000)
    /\ ordered[1].data.utilidad_neta = Int2Num(100)
    /\ ordered[2].period = PeriodKey(2024, 2)
    /\ ordered[2].data.ingresos_netos = Int2Num(1200)
    /\ ordered[2].data.utilidad_neta = Int2Num(180)
    /\ ordered[1].kpis.crecimiento_ingresos_pct = Undefined
    /\ ordered[2].kpis.crecimiento_ingresos_pct = Rat(20, 100)
    /\ ordered[1].kpis.crecimiento_utilidad_pct = Undefined
    /\ ordered[2].kpis.crecimiento_utilidad_pct = Rat(80, 100)

\* the sum of the defined flujo_operativo values of periods 1..i
RECURSIVE FlowSum(_)
FlowSum(i) ==
    IF i = 0 THEN Zero
    ELSE LET f == ordered[i].kpis.flujo_operativo
             t == FlowSum(i - 1)
         IN  IF f.k = "num" THEN Rat(t.n * f.d + f.n * t.d, t.d * f.d) ELSE t

\* C10: cashflow_acumulado[i] is the prefix sum of flujo_operativo over
\* periods 0..i; an undefined flujo_operativo contributes 0 and neither resets
\* nor erases the total.
C10_CashflowIsPrefixSum ==
    \A i \in Visited :
        /\ ordered[i].kpis.cashflow_acumulado = FlowSum(i)
        /\ (i > 1 /\ ordered[i].kpis.flujo_operativo.k # "num") =>
               ordered[i].kpis.cashflow_acumulado = ordered[i - 1].kpis.cashflow_acumulado

C10_Witness ==
    /\ pc = "done"
    /\ Len(ordered) = 3
    /\ [i \in 1..3 |-> ordered[i].kpis.flujo_operativo] =
           <<Int2Num(100), Int2Num(-50), Int2Num(200)>>
    /\ [i \in 1..3 |-> ordered[i].kpis.cashflow_acumulado] =
           <<Int2Num(100), Int2Num(50), Int2Num(250)>>

\* the positions of the trailing window of period i that hold a revenue
WindowDefined(i) ==
    {j \in 1..i : j >= i - 2 /\ ordered[j].data.ingresos_netos.k = "num"}

\* the sum of the revenues at the positions of W
RECURSIVE RevenueSum(_)
RevenueSum(W) ==
    IF W = {} THEN Zero
    ELSE LET j == CHOOSE x \in W : TRUE
             t == RevenueSum(W \ {j})
             r == ordered[j].data.ingresos_netos
         IN  Rat(t.n * r.d + r.n * t.d, t.d * r.d)

\* C11: promedio_ingresos_3m[i] is the mean of the defined revenues among the
\* periods i, i-1 and i-2 that exist; it is undefined only when none of them
\* is defined, so a window of 1 or 2 defined values still yields a value.
C11_PartialWindowMean ==
    \A i \in Visited :
        LET W == WindowDefined(i)
            t == RevenueSum(W)
            a == ordered[i].kpis.promedio_ingresos_3m
        IN  /\ (a = Undefined) <=> (W = {})
            /\ W # {} => a = Rat(t.n, t.d * Cardinality(W))

C11_Witness ==
    /\ pc = "done"
    /\ Len(ordered) = 3
    /\ [i \in 1..3 |-> ordered[i].data.ingresos_netos] =
           <<Int2Num(1000), Undefined, Int2Num(1200)>>
    /\ [i \in 1..3 |-> ordered[i].kpis.promedio_ingresos_3m] =
           <<Int2Num(1000), Int2Num(1000), Int2Num(1100)>>

\* C12: retencion = 1 - churn_rate whenever churn_rate is defined, and both
\* are undefined when active_customers is absent; ltv = arpu / churn_rate is
\* undefined whenever churn_rate is undefined or zero, so a record with zero
\* lost customers and non-zero active customers has retencion = 1 and ltv and
\* ltv_cac undefined.
C12_RetentionAndLtv ==
    kpis.done =>
        LET m == kpis.map IN
        /\ m.churn_rate.k = "num" =>
               m.retencion = Rat(m.churn_rate.d - m.churn_rate.n, m.churn_rate.d)
        /\ record.clientes_activos.k # "num" =>
               m.churn_rate = Undefined /\ m.retencion = Undefined
        /\ (m.churn_rate = Undefined \/ m.churn_rate = Zero) =>
               m.ltv = Undefined /\ m.ltv_cac = Undefined
        /\ ( /\ record.clientes_perdidos = Zero
             /\ record.clientes_activos.k = "num"
             /\ record.clientes_activos.n # 0 ) =>
               m.retencion = One /\ m.ltv = Undefined /\ m.ltv_cac = Undefined

C12_Witness ==
    /\ kpis.done
    /\ record = [FullRecord EXCEPT !["clientes_perdidos"] = Zero]
    /\ kpis.map.churn_rate = Zero
    /\ kpis.map.retencion = One
    /\ kpis.map.arpu = Int2Num(20)
    /\ kpis.map.ltv = Undefined
    /\ kpis.map.ltv_cac = Undefined

-----------------------------------------------------------------------------
(* Claims about batches with malformed period keys (SpecBatch) *)

\* the records of the input whose period key is not of the form YYYY-MM
Malformed ==
    {i \in 1..Len(input) :
        \A y \in 2020..2029, m \in 1..12 : input[i].period # PeriodKey(y, m)}

\* C13: a batch in which any period key does not match YYYY-MM is rejected as
\* a whole with InvalidPeriodFormat before normalization: the error reaches
\* the caller, no record of the batch is normalized or computed, and the
\* malformed record is never silently dropped.
C13_MalformedBatchRejected ==
    /\ (pc # "input" /\ Malformed # {}) =>
           /\ pc = "failed"
           /\ error = "InvalidPeriodFormat"
           /\ ordered = <<>>
           /\ rows = <<>>
    /\ (pc # "input" /\ Malformed = {}) => (error = "none" /\ pc # "failed")

C13_Witness ==
    /\ pc = "failed"
    /\ error = "InvalidPeriodFormat"
    /\ Len(input) = 3
    /\ input[1].period = PeriodKey(2024, 1)
    /\ input[2].period = <<"2", "0", "2", "4", "-", "1">>
    /\ input[3].period = PeriodKey(2023, 12)
    /\ ordered = <<>>

-----------------------------------------------------------------------------
(* Claims about the KPI detail page (SpecSeries) *)

\* the values of the detail page's KPI, oldest period first, null when missing
ShownValues ==
    [i \in 1..Len(ordered) |->
        IF detailKey \in DOMAIN ordered[i].kpis
        THEN OrNull(ordered[i].kpis[detailKey]) ELSE Null]

\* C14: the trend is 'up' when the latest value is greater than the previous
\* one, 'down' when it is less, and 'neutral' when they are equal or when
\* either side is undefined (including a series with fewer than two periods).
C14_TrendDirection ==
    pc = "shown" =>
        LET n == Len(ShownValues) IN
        IF n < 2 THEN trend = "neutral"
        ELSE LET l == ShownValues[n]
                 p == ShownValues[n - 1]
             IN  IF l.k # "num" \/ p.k # "num" THEN trend = "neutral"
                 ELSE /\ l.n * p.d > p.n * l.d => trend = "up"
                      /\ l.n * p.d < p.n * l.d => trend = "down"
                      /\ l.n * p.d = p.n * l.d => trend = "neutral"

C14_Witness ==
    /\ pc = "shown"
    /\ detailKey = "margen_neto"
    /\ Len(rows) = 2
    /\ previous = Rat(3, 20)
    /\ latest = Rat(1, 10)
    /\ trend = "down"

-----------------------------------------------------------------------------
(* Claims about the Metric Registry (SpecCard) *)

\* the documented status rules: direction, lower and upper threshold
DocumentedRules ==
    [ margen_neto        |-> <<"high_good", Rat(5, 100), Rat(15, 100)>>,
      margen_bruto       |-> <<"high_good", Rat(20, 100), Rat(35, 100)>>,
      margen_operativo   |-> <<"high_good", Rat(8, 100), Rat(15, 100)>>,
      liquidez_corriente |-> <<"high_good", Int2Num(1), Rat(3, 2)>>,
      retencion          |-> <<"high_good", Rat(80, 100), Rat(90, 100)>>,
      ltv_cac            |-> <<"high_good", Int2Num(2), Int2Num(3)>>,
      runway_meses       |-> <<"high_good", Int2Num(3), Int2Num(6)>>,
      churn_rate         |-> <<"low_good", Rat(5, 100), Rat(10, 100)>>,
      payback_cac_meses  |-> <<"low_good", Int2Num(3), Int2Num(6)>> ]

\* C15: the registry assigns a status rule to exactly nine KPIs, with the
\* documented thresholds, and every other registered KPI has no rule and so
\* always classifies as 'none'.
C15_NineDocumentedRules ==
    (card.rendered /\ kpiKey \in DOMAIN KPI_META) =>
        LET r == card.meta.rule IN
        IF kpiKey \in DOMAIN DocumentedRules
        THEN LET doc == DocumentedRules[kpiKey] IN
             /\ r.type = doc[1]
             /\ r.yellowMax = doc[3]
             /\ doc[1] = "high_good" => (r.redMax = doc[2] /\ r.greenMax = Undefined)
             /\ doc[1] = "low_good" => (r.greenMax = doc[2] /\ r.redMax = Undefined)
        ELSE /\ r.type = "absent"
             /\ SeverityOf(card.sem) = "none"

C15_Witness ==
    /\ card.rendered
    /\ kpiKey = "margen_operativo"
    /\ value = Rat(8, 100)
    /\ card.meta.rule.redMax = Rat(8, 100)
    /\ card.meta.rule.yellowMax = Rat(15, 100)
    /\ card.sem = Atencion

-----------------------------------------------------------------------------
(* Claims about the company dashboard's KPI grid (SpecDashboard) *)

\* the value from which the registry's rule calls a KPI healthy
HealthyFrom(rule) ==
    IF rule.type = "high_good" THEN rule.yellowMax ELSE Undefined

\* C16: the registry is the single source of truth for thresholds and unit
\* formatting: the threshold a component shows for a KPI is the threshold of
\* that KPI's registry rule, and a value is formatted by the unit the registry
\* gives the KPI, no component carrying a threshold or unit table of its own.
C16_RegistrySingleSource ==
    dashCard.shown =>
        LET meta == Lookup(dashCard.key) IN
        /\ dashCard.text = formatValue(dashCard.value, meta.unit)
        /\ dashCard.description.given =>
               dashCard.description.above = HealthyFrom(meta.rule)

-----------------------------------------------------------------------------
(* Claims about the registry in memory (SpecRegistry) *)

\* C17: the registry is never mutated after load: no lookup, classification,
\* formatting or card rendering changes a definition, unit or threshold, so
\* the lookups of a key return the same definition whatever ran before.
C17_RegistryNeverMutated ==
    /\ registry = KPI_META
    /\ (card.rendered /\ kpiKey \in DOMAIN KPI_META) => card.meta = KPI_META[kpiKey]
    /\ (card.rendered /\ kpiKey \in UnknownKeys) => card.meta = Meta(kpiKey, "null", NoRule)

C17_Witness ==
    /\ card.rendered
    /\ kpiKey = "ratio_ltv_cac"
    /\ value = Int2Num(3)
    /\ card.meta = Meta("ratio_ltv_cac", "null", NoRule)
    /\ registry = KPI_META
    /\ "ratio_ltv_cac" \notin DOMAIN registry

-----------------------------------------------------------------------------
(* Claims about interleaved computation requests (SpecPair) *)

\* the cross-period KPIs of the rows of s, from the first on, carrying c
RECURSIVE CrossAll(_, _)
CrossAll(s, c) ==
    IF s = <<>> THEN <<>>
    ELSE LET row   == Head(s)
             cross == CrossOf(row, c)
             done  == [row EXCEPT !.kpis =
                          [key \in DOMAIN row.kpis |->
                              IF key \in CrossKpis THEN cross[key] ELSE row.kpis[key]]]
         IN  <<done>> \o CrossAll(Tail(s), CarryAfter(row, c))

\* the series a request over the records s yields when it runs alone
Alone(s) ==
    LET sorted == Normalizer(s) IN
    CrossAll([i \in 1..Len(sorted) |->
                 [period |-> sorted[i].period, data |-> sorted[i].data,
                  kpis |-> WithCrossBlank(SinglePeriod(sorted[i].data))]],
             NoCarry)

-----------------------------------------------------------------------------
(* Claims about the manual data-entry form (SpecForm) *)

\* C19: in every payload the form submits a key is present only for a field
\* the user filled in, no key carries an empty string or NaN, every numeric
\* field is sent as a number and period is sent as the unconverted string.
C19_MissingFieldsAbsent ==
    [][ (edits' = edits /\ payload'.sent) =>
            LET b == payload'.body IN
            /\ DOMAIN b = {f \in FormFields : formData[f] # <<>>}
            /\ \A key \in DOMAIN b :
                   IF key = "period"
                   THEN /\ b[key].type = "string"
                        /\ b[key].text = formData.period
                        /\ b[key].text # <<>>
                   ELSE /\ b[key].type = "number"
                        /\ b[key].num.k = "num" ]_vars

C19_Witness ==
    /\ payload.sent
    /\ DOMAIN payload.body = {"period", "ingresos_netos", "caja"}
    /\ payload.body.period = JsString(PeriodKey(2024, 1))
    /\ payload.body.ingresos_netos = JsNumber(Int2Num(1000))
    /\ payload.body.caja = JsNumber(Rat(25, 2))
    /\ formData = EmptyForm

-----------------------------------------------------------------------------
(* Claims about the sales panel (SpecSales) *)

\* the permitted states of a sale
SaleStates == {"facturada", "confirmada"}

\* C20: after any sequence of edits, submissions (successful or failed) and
\* resets, the estado of the form, and so of every sale it submits, is
\* 'facturada' or 'confirmada', and it is 'facturada' after initialisation
\* and after every successful submission.
C20_OnlyPermittedStates ==
    /\ salesFormData.estado = "facturada"
    /\ [][ /\ salesFormData'.estado \in SaleStates
           /\ sale'.state # "none" => sale'.body.estado \in SaleStates
           /\ (sale.state = "posting" /\ sale'.state = "registered") =>
                  salesFormData'.estado = "facturada" ]_vars

C20_Witness ==
    /\ sale.state = "registered"
    /\ sale.body.estado = "confirmada"
    /\ sale.body.monto = Int2Num(1000)
    /\ salesFormData = EmptySale

-----------------------------------------------------------------------------
(* Claims about the API client and the login page (SpecAuth) *)

\* the header the client sends for what localStorage holds
HeaderFor(store) == IF store.token = NoItem THEN NoHeader ELSE Bearer(store.token)

\* C21: whenever a response arrives with status 401, the stored token is
\* removed, the browser is sent to /login and the caller gets a rejection;
\* a response error with any other status, or without a response, leaves
\* the stored token and the location as they were (and is rejected too)
C21_UnauthorizedClearsSession ==
    [][delivered' # delivered =>
         /\ delivered'.status = 401 =>
                /\ localStorage'.token = NoItem
                /\ location' = "/login"
                /\ delivered'.outcome = "rejected"
         /\ delivered'.status \in {500, NoResponse} =>
                /\ localStorage' = localStorage
                /\ location' = location
                /\ delivered'.outcome = "rejected"]_vars

\* C21 witness: a request that carried a token was answered 401 away from
\* the login page, and the token is gone
C21_Witness ==
    /\ delivered.status = 401
    /\ delivered.outcome = "rejected"
    /\ sent[delivered.id].Authorization = Bearer("t0")
    /\ sent[delivered.id].url = "/dashboard/1"
    /\ localStorage.token = NoItem
    /\ location = "/login"

\* C22: every request carries Authorization: Bearer <token> exactly when a
\* token is stored at the moment it is sent, with the token stored at that
\* moment; so none carries the header while the token is cleared
C22_BearerIffTokenStored ==
    [][Len(sent') > Len(sent) =>
         sent'[Len(sent')].Authorization = HeaderFor(localStorage')]_vars

\* C22 witness: a request with the token, the 401 that cleared it, a later
\* request without a header, and after a login a request with the new token
C22_Witness ==
    /\ Len(sent) = 3
    /\ sent[1].Authorization = NoHeader
    /\ sent[1].url = "/login"
    /\ sent[2].Authorization \in {Bearer(t) : t \in Tokens}
    /\ sent[2].url = "/me"
    /\ delivered = Delivery(2, 401)
    /\ sent[3].Authorization = NoHeader
    /\ sent[3].owner = "page"

\* C23: when the login handler ends with an error (of login or of getMe,
\* whatever the status), the token this attempt stored is not in
\* localStorage, loginUser was not called and nothing navigated to
\* /dashboard; and loading is false after every attempt
C23_FailedLoginLeavesNoSession ==
    /\ (login.pc = "done" /\ login.outcome = "error") =>
           /\ login.token # NoItem => localStorage.token # login.token
           /\ ~login.loginUser
           /\ ~login.navigated
    /\ login.pc \in {"idle", "done"} => ~login.loading

-----------------------------------------------------------------------------
(* Claims about the registration form (SpecRegister) *)

RejectionToasts ==
    {"Las contrasenas no coinciden", "La contrasena debe tener al menos 8 caracteres"}

-----------------------------------------------------------------------------
(* Claims about the KPI keys the pages use (SpecDashboard) *)

\* the keys of the display groups
GroupKeys ==
    UNION {{KPI_GROUPS[g].keys[i] : i \in DOMAIN KPI_GROUPS[g].keys} : g \in DOMAIN KPI_GROUPS}

\* a key the registry defines and the engine produces
Produced(key) == key \in DOMAIN KPI_META /\ key \in EngineKeys

\* C25: every key the company dashboard reads from latest_kpis, every key
\* of the icon map and every key of the display groups is a key of the
\* Metric Registry and of the formula tables
C25_DisplayedKeysProduced ==
    /\ dashCard.shown => Produced(dashCard.key)
    /\ \A key \in DOMAIN iconMap : Produced(key)
    /\ \A key \in GroupKeys : Produced(key)

-----------------------------------------------------------------------------
(* Claims about missing values on display (SpecSeries) *)

\* what each chart series and each table column shows: a raw field or a KPI
ChartSource ==
    [ingresos |-> "ingresos_netos", costos |-> "costos_directos",
     utilidad |-> "utilidad_neta", margen |-> "margen_neto",
     flujo |-> "flujo_operativo", cashflow_acum |-> "cashflow_acumulado"]
TableSource ==
    [ingresos |-> "ingresos_netos", costos |-> "costos_directos",
     utilidad |-> "utilidad_neta", margen |-> "margen_neto",
     crec |-> "crecimiento_ingresos_pct"]

\* the value of a period a series or column is about
SourceValue(d, name) ==
    IF name \in DOMAIN d.data THEN d.data[name] ELSE KpiOf(d, name)

\* C26: undefined and zero are never conflated in a display: an absent
\* field or undefined KPI is shown as missing (N/A, -, no chart point),
\* never as 0, and a defined value, 0 included, is shown as a number
C26_UndefinedNeverZero ==
    pc = "shown" =>
        \A i \in 1..Len(periods) :
            /\ \A s \in DOMAIN ChartSource :
                   IsNullish(chartData[i][s])
                       <=> IsNullish(SourceValue(periods[i], ChartSource[s]))
            /\ \A c \in DOMAIN TableSource :
                   TableBody[i][c] = Dash
                       <=> IsNullish(SourceValue(periods[i], TableSource[c]))
            /\ \A key \in DOMAIN KPI_META :
                   formatValue(KpiOf(periods[i], key), KPI_META[key].unit) = NotAvailable
                       <=> IsNullish(KpiOf(periods[i], key))

-----------------------------------------------------------------------------
(* Claims about reloads (SpecList) *)

\* every load has arrived and none failed
AllLoaded == \A i \in DOMAIN loads : loads[i].state = "done"

\* C27: reloads are not reordered by the network: once every load in
\* flight has completed, whatever the order of arrival, the list on screen
\* is the one the most recently issued request returned
C27_LatestLoadWins ==
    AllLoaded => companies = loads[Len(loads)].data

-----------------------------------------------------------------------------
(* Claims about submitting a sale (SpecSales) *)

-----------------------------------------------------------------------------
(* Claims about the classifier's monotonicity (SpecMono) *)

\* critical < warning < healthy
Rank(sem) ==
    IF SeverityOf(sem) = "critical" THEN 0
    ELSE IF SeverityOf(sem) = "warning" THEN 1
    ELSE IF SeverityOf(sem) = "healthy" THEN 2
    ELSE -1

\* C29: classification is monotone in the value for every rule of the
\* registry: for defined values a <= b, under a high_good rule b is never
\* classified worse than a, under a low_good rule never better
C29_ClassificationMonotone ==
    (lights.done /\ ~IsNullish(pair.a) /\ ~IsNullish(pair.b) /\ JsLe(pair.a, pair.b)) =>
        LET type == KPI_META[pair.key].rule.type IN
        /\ type = "high_good" => Rank(lights.a) <= Rank(lights.b)
        /\ type = "low_good" => Rank(lights.b) <= Rank(lights.a)
        /\ type # "absent" => Rank(lights.a) >= 0 /\ Rank(lights.b) >= 0

\* C29 witness: under margen_neto's rule a critical value and a larger
\* healthy one; the two lights differ
C29_Witness ==
    /\ lights.done
    /\ pair.key = "margen_neto"
    /\ pair.a = Rat(4, 100)
    /\ pair.b = Rat(15, 100)
    /\ SeverityOf(lights.a) = "critical"
    /\ SeverityOf(lights.b) = "healthy"

-----------------------------------------------------------------------------
(* Claims about the statistics of the KPI detail page (SpecSeries) *)

\* the periods that have a defined value for the KPI on the page
DefinedPeriods ==
    {i \in DOMAIN rows : HasPeriod(rows[i]) /\ ~IsNullish(KpiOf(rows[i], detailKey))}

\* C30: stats is absent exactly when no period has a defined value for the
\* KPI; otherwise count is the number of periods with a defined value
\* (zeros included), min and max are the values of some period, and
\* min <= avg <= max
C30_StatsOverDefinedValues ==
    pc = "shown" =>
        /\ stats.absent <=> DefinedPeriods = {}
        /\ ~stats.absent =>
               /\ stats.count = Cardinality(DefinedPeriods)
               /\ \E i \in DefinedPeriods :
                      stats.min = ToDouble(KpiOf(rows[i], detailKey))
               /\ \E i \in DefinedPeriods :
                      stats.max = ToDouble(KpiOf(rows[i], detailKey))
               /\ DLe(stats.min, stats.avg)
               /\ DLe(stats.avg, stats.max)

=============================================================================
